---- MODULE Spec2Model ----
(***************************************************************************)
(* Model of invoice-scout's extraction pipeline                            *)
(* (src/invoice_scanner/openrouter.py, config.py, utils.py).               *)
(*                                                                         *)
(* Python strings are sequences of one-character strings, so that strip,   *)
(* lower, startswith, find, regular-expression matching and JSON decoding  *)
(* are computed character by character, the way the code computes them.    *)
(* Python/JSON values are records with one shape (fields t, s, n, l, d):   *)
(* t is the type tag, and only the field that belongs to the tag is used.  *)
(***************************************************************************)
EXTENDS Integers, Sequences, FiniteSets, TLC

VARIABLES
    \* --- one call of OpenRouterService.extract_invoice_data
    pc,             \* the stage the call is at
    model,          \* self.model
    payload,        \* the request payload
    sent,           \* max_tokens of every SEND made, in order
    received,       \* every response received, in order
    content,        \* the local variable content
    finish_reason,  \* the local variable finish_reason
    extracted_data, \* the decoded JSON
    normalized_data,\* the normalized mapping
    outcome,        \* the value returned or the exception raised
    last_usage,     \* self.last_usage
    last_headers,   \* self.last_headers
    stages,         \* the stages entered, in order
    retries,        \* the HTTP attempts of the SEND under way that were retried
    http,           \* per SEND made: the number of HTTP attempts and the last one
    \* --- harness of ContentSanitizer (utils.strip_code_fences)
    s_pc,           \* "idle" | "in" | "once" | "twice"
    s_text,         \* the text handed to strip_code_fences
    s_once,         \* strip_code_fences(s_text)
    s_twice,        \* strip_code_fences(s_once)
    \* --- harness of FieldNormalizer and InvoiceValidator
    v_pc,           \* "idle" | "in" | "direct" | "normalized" | "validated"
    v_raw,          \* the raw mapping (keys to values)
    v_norm,         \* outcome of _normalize_extracted_data(v_raw)
    v_out,          \* outcome of model_validate
    \* --- the drive folder, the spreadsheet and InvoiceProcessor.run
    sheet_rows,     \* the rows of the invoice sheets: file ID and sheet
    runs,           \* the number of runs started
    r_pc,           \* where the run is
    processed_ids,  \* the local variable processed_ids
    new_files,      \* the local variable new_files: file IDs in order
    downloads,      \* per new file: the outcome of _download_pdf
    futures,        \* per new file: the state of its _process_content task
    collected,      \* the futures that as_completed has handed over
    extracted_invoices, \* the local variable: the new files with an invoice
    processed_count,\* the local variable processed_count
    service_usage,  \* openrouter_service.last_usage: the task that set it
    \* --- the debug dump directory and the attempts that dump into it
    d_pc,           \* per attempt: where it is
    d_counter,      \* per attempt: the counter of _unique_dump_path
    dump_paths,     \* per attempt: the local variable dump_paths
    writes,         \* per path: how many times it was opened for writing
    \* --- local_command and its pool
    l_pc,           \* where the command is
    l_models,       \* the local variable models
    l_futures,      \* per model: the state of its _run_model task
    ordered,        \* the local variable ordered
    results,        \* the results printed
    \* --- GoogleSheetsService._execute_with_retry
    e_pc,           \* where the call is
    e_attempt,      \* the loop variable attempt
    e_seen,         \* the outcomes of request.execute() so far
    e_out,          \* what the call returned or raised
    \* --- sheet_name_for_date and the sheets that are scanned
    n_pc,           \* where the harness is
    n_date,         \* the invoice date
    n_valid,        \* the outcome of the date validator
    n_sheet         \* the sheet name built from the date

attempt_vars == <<pc, model, payload, sent, received, content, finish_reason,
                  extracted_data, normalized_data, outcome, last_usage,
                  last_headers, stages, retries, http>>
sanitize_vars == <<s_pc, s_text, s_once, s_twice>>
validate_vars == <<v_pc, v_raw, v_norm, v_out>>
run_vars == <<sheet_rows, runs, r_pc, processed_ids, new_files, downloads, futures,
              collected, extracted_invoices, processed_count, service_usage>>
dump_vars == <<d_pc, d_counter, dump_paths, writes>>
local_vars == <<l_pc, l_models, l_futures, ordered, results>>
execute_vars == <<e_pc, e_attempt, e_seen, e_out>>
name_vars == <<n_pc, n_date, n_valid, n_sheet>>
aux_vars == <<local_vars, execute_vars, name_vars>>
pool_vars == <<run_vars, dump_vars, aux_vars>>
vars == <<attempt_vars, sanitize_vars, validate_vars, pool_vars>>

(***************************************************************************)
(* Bounds                                                                  *)
(***************************************************************************)
\* number of tokens concatenated into a text handed to strip_code_fences
MaxTokens == 4
\* number of blanks put before and after a placeholder spelling
MaxPad == 1
\* number of files the drive folder lists in one run
MaxFiles == 2
\* number of runs of InvoiceProcessor.run
MaxRuns == 2

(***************************************************************************)
(* Python str primitives                                                   *)
(***************************************************************************)
\* str.strip() with no argument removes these (the ASCII part of
\* str.isspace that the texts of the model use)
Whitespace == {" ", "\n", "\t"}

RECURSIVE lstrip(_)
lstrip(s) ==
    IF s # <<>> /\ Head(s) \in Whitespace THEN lstrip(Tail(s)) ELSE s

RECURSIVE rstrip(_)
rstrip(s) ==
    IF s # <<>> /\ s[Len(s)] \in Whitespace
    THEN rstrip(SubSeq(s, 1, Len(s) - 1))
    ELSE s

\* str.strip()
strip(s) == rstrip(lstrip(s))

\* str.startswith(p)
startswith(s, p) == Len(s) >= Len(p) /\ SubSeq(s, 1, Len(p)) = p

\* str.endswith(p)
endswith(s, p) ==
    Len(s) >= Len(p) /\ SubSeq(s, Len(s) - Len(p) + 1, Len(s)) = p

\* c in s, for a one-character c
contains(s, c) == \E i \in 1..Len(s) : s[i] = c

\* str.find(c) + 1 (1-based), for a c that occurs in s
find(s, c) == CHOOSE i \in 1..Len(s) :
    s[i] = c /\ \A j \in 1..(i - 1) : s[j] # c

\* str.rfind(c) + 1 (1-based), for a c that occurs in s
rfind(s, c) == CHOOSE i \in 1..Len(s) :
    s[i] = c /\ \A j \in (i + 1)..Len(s) : s[j] # c

\* the grave accent U+0060: the one character the parser does not accept
\* inside a string, so it is written as an atom of its own
BACKTICK == "BACKTICK"

FENCE == <<BACKTICK, BACKTICK, BACKTICK>>
JSON_TAG == <<"j", "s", "o", "n">>

(***************************************************************************)
(* utils.strip_code_fences                                                 *)
(***************************************************************************)
\* lines 12-17: the leading fence, the json tag and the trailing fence
strip_fence(stripped) ==
    IF startswith(stripped, FENCE)
    THEN LET a == SubSeq(stripped, 4, Len(stripped))
             b == IF startswith(a, JSON_TAG) THEN SubSeq(a, 5, Len(a)) ELSE a
         IN  IF endswith(b, FENCE) THEN SubSeq(b, 1, Len(b) - 3) ELSE b
    ELSE stripped

\* lines 20-24: cut to the span from the first "{" to the last "}"
cut_to_braces(stripped) ==
    IF contains(stripped, "{") /\ contains(stripped, "}")
    THEN LET start == find(stripped, "{")
             end == rfind(stripped, "}")
         IN  IF start < end THEN SubSeq(stripped, start, end) ELSE stripped
    ELSE stripped

\* a variant that returns every blank text as it is
strip_code_fences_blank_unchanged(text) ==
    IF strip(text) = <<>>
    THEN text
    ELSE strip(cut_to_braces(strip(strip_fence(strip(text)))))

strip_code_fences(text) ==
    IF text = <<>>
    THEN text
    ELSE strip(cut_to_braces(strip(strip_fence(strip(text)))))

(***************************************************************************)
(* Python / JSON values                                                    *)
(***************************************************************************)
JNull == [t |-> "null", s |-> <<>>, n |-> 0, l |-> <<>>, d |-> <<>>]
JStr(s) == [t |-> "str", s |-> s, n |-> 0, l |-> <<>>, d |-> <<>>]
JInt(n) == [t |-> "int", s |-> <<>>, n |-> n, l |-> <<>>, d |-> <<>>]
JBool(b) == [t |-> "bool", s |-> <<>>, n |-> IF b THEN 1 ELSE 0,
             l |-> <<>>, d |-> <<>>]
\* a float n.frac, frac being its decimal digits as repr prints them
JFloat(n, frac) == [t |-> "float", s |-> frac, n |-> n, l |-> <<>>, d |-> <<>>]
JList(l) == [t |-> "list", s |-> <<>>, n |-> 0, l |-> l, d |-> <<>>]
JDict(d) == [t |-> "dict", s |-> <<>>, n |-> 0, l |-> <<>>, d |-> d]

EmptyDict == <<>>

\* `not v`
falsy(v) ==
    CASE v.t = "null" -> TRUE
      [] v.t = "str" -> v.s = <<>>
      [] v.t = "int" -> v.n = 0
      [] v.t = "bool" -> v.n = 0
      [] v.t = "float" -> v.n = 0 /\ v.s = <<"0">>
      [] v.t = "list" -> v.l = <<>>
      [] v.t = "dict" -> DOMAIN v.d = {}

\* dict.get(key): None when the key is absent
py_get(d, key) == IF key \in DOMAIN d THEN d[key] ELSE JNull

\* d[key] = value on a copy
py_set(d, key, value) ==
    [k \in DOMAIN d \cup {key} |-> IF k = key THEN value ELSE d[k]]

UpperChars == <<"A", "B", "C", "D", "E", "F", "G", "H", "I", "J", "K", "L", "M", "N", "O", "P", "Q", "R", "S", "T", "U", "V", "W", "X", "Y", "Z">>
LowerChars == <<"a", "b", "c", "d", "e", "f", "g", "h", "i", "j", "k", "l", "m", "n", "o", "p", "q", "r", "s", "t", "u", "v", "w", "x", "y", "z">>
DigitChars == <<"0", "1", "2", "3", "4", "5", "6", "7", "8", "9">>

lower_char(c) ==
    IF \E i \in 1..26 : UpperChars[i] = c
    THEN LowerChars[CHOOSE i \in 1..26 : UpperChars[i] = c]
    ELSE c

\* str.lower()
lower(s) == [i \in 1..Len(s) |-> lower_char(s[i])]

\* \d
isdigit(c) == \E i \in 1..10 : DigitChars[i] = c

digit_value(c) == (CHOOSE i \in 1..10 : DigitChars[i] = c) - 1

RECURSIVE int_of_digits(_)
int_of_digits(s) ==
    IF s = <<>> THEN 0
    ELSE 10 * int_of_digits(SubSeq(s, 1, Len(s) - 1)) + digit_value(s[Len(s)])

\* str(n) for n >= 0
RECURSIVE digits_of_nat(_)
digits_of_nat(n) ==
    IF n < 10 THEN <<DigitChars[n + 1]>>
    ELSE digits_of_nat(n \div 10) \o <<DigitChars[(n % 10) + 1]>>

\* str(n)
digits_of_int(n) ==
    IF n < 0 THEN <<"-">> \o digits_of_nat(0 - n) ELSE digits_of_nat(n)

\* "%02d" % n
two_digits(n) == <<DigitChars[(n \div 10) + 1], DigitChars[(n % 10) + 1]>>

K_file_id == <<"f", "i", "l", "e", "_", "i", "d">>
K_file_name == <<"f", "i", "l", "e", "_", "n", "a", "m", "e">>
K_file_url == <<"f", "i", "l", "e", "_", "u", "r", "l">>
K_extraction_date == <<"e", "x", "t", "r", "a", "c", "t", "i", "o", "n", "_", "d", "a", "t", "e">>
K_invoice_number == <<"i", "n", "v", "o", "i", "c", "e", "_", "n", "u", "m", "b", "e", "r">>
K_invoice_date == <<"i", "n", "v", "o", "i", "c", "e", "_", "d", "a", "t", "e">>
K_language == <<"l", "a", "n", "g", "u", "a", "g", "e">>
K_company == <<"c", "o", "m", "p", "a", "n", "y">>
K_product == <<"p", "r", "o", "d", "u", "c", "t">>
K_total_value == <<"t", "o", "t", "a", "l", "_", "v", "a", "l", "u", "e">>
K_currency == <<"c", "u", "r", "r", "e", "n", "c", "y">>
K_taxes_paid == <<"t", "a", "x", "e", "s", "_", "p", "a", "i", "d">>
K_extra_fields == <<"e", "x", "t", "r", "a", "_", "f", "i", "e", "l", "d", "s">>
K_vendor_name == <<"v", "e", "n", "d", "o", "r", "_", "n", "a", "m", "e">>
K_vendor_details == <<"v", "e", "n", "d", "o", "r", "_", "d", "e", "t", "a", "i", "l", "s">>
K_name == <<"n", "a", "m", "e">>
K_line_items == <<"l", "i", "n", "e", "_", "i", "t", "e", "m", "s">>
K_description == <<"d", "e", "s", "c", "r", "i", "p", "t", "i", "o", "n">>
K_total_amount == <<"t", "o", "t", "a", "l", "_", "a", "m", "o", "u", "n", "t">>
K_tax_amount == <<"t", "a", "x", "_", "a", "m", "o", "u", "n", "t">>
K_foo == <<"f", "o", "o">>

S_unknown == <<"u", "n", "k", "n", "o", "w", "n">>
S_n_a == <<"n", "/", "a">>
S_N_A == <<"N", "/", "A">>
S_de == <<"d", "e">>
S_en == <<"e", "n">>
S_EUR == <<"E", "U", "R">>
S_EURO == <<"E", "U", "R", "O">>
S_Euro == <<"E", "u", "r", "o">>
S_True == <<"T", "r", "u", "e">>
S_False == <<"F", "a", "l", "s", "e">>
S_None == <<"N", "o", "n", "e">>

(***************************************************************************)
(* The outcome of a call: a returned value or a raised exception.          *)
(* kind is "ok" or the exception's class; msg is the exception's message   *)
(* where the code sets one; errors are the fields a pydantic               *)
(* ValidationError names; value is the returned value.                     *)
(***************************************************************************)
Returned(v) == [kind |-> "ok", msg |-> <<>>, errors |-> {}, value |-> v]
Raised(kind, msg) == [kind |-> kind, msg |-> msg, errors |-> {}, value |-> JNull]
RaisedValidation(errors) ==
    [kind |-> "ValidationError", msg |-> <<>>, errors |-> errors, value |-> JNull]

(***************************************************************************)
(* config.py: the date patterns and InvoiceExtract._normalize_invoice_date *)
(***************************************************************************)
\* DATE_DD_MM_YYYY_RE.match(value): (\d{2})\.(\d{2})\.(\d{4}) at the start
DATE_DD_MM_YYYY_RE(value) ==
    /\ Len(value) >= 10
    /\ \A i \in {1, 2, 4, 5, 7, 8, 9, 10} : isdigit(value[i])
    /\ value[3] = "." /\ value[6] = "."

\* DATE_YYYY_MM_DD_RE.match(value): (\d{4})-(\d{2})-(\d{2}) at the start
DATE_YYYY_MM_DD_RE(value) ==
    /\ Len(value) >= 10
    /\ \A i \in {1, 2, 3, 4, 6, 7, 9, 10} : isdigit(value[i])
    /\ value[5] = "-" /\ value[8] = "-"

MonthNames == <<<<"j", "a", "n", "u", "a", "r", "y">>, <<"f", "e", "b", "r", "u", "a", "r", "y">>, <<"m", "a", "r", "c", "h">>, <<"a", "p", "r", "i", "l">>, <<"m", "a", "y">>, <<"j", "u", "n", "e">>, <<"j", "u", "l", "y">>, <<"a", "u", "g", "u", "s", "t">>, <<"s", "e", "p", "t", "e", "m", "b", "e", "r">>, <<"o", "c", "t", "o", "b", "e", "r">>, <<"n", "o", "v", "e", "m", "b", "e", "r">>, <<"d", "e", "c", "e", "m", "b", "e", "r">>>>
MonthAbbrs == <<<<"j", "a", "n">>, <<"f", "e", "b">>, <<"m", "a", "r">>, <<"a", "p", "r">>, <<"m", "a", "y">>, <<"j", "u", "n">>, <<"j", "u", "l">>, <<"a", "u", "g">>, <<"s", "e", "p">>, <<"o", "c", "t">>, <<"n", "o", "v">>, <<"d", "e", "c">>>>

is_leap(y) == (y % 4 = 0) /\ ((y % 100 # 0) \/ (y % 400 = 0))

days_in_month(y, m) ==
    IF m = 2 THEN (IF is_leap(y) THEN 29 ELSE 28)
    ELSE IF m \in {4, 6, 9, 11} THEN 30 ELSE 31

\* the %d directive followed by ",": one or two digits naming 1..31
\* (3[0-1]|[1-2]\d|0[1-9]|[1-9]); the length of the day token, 0 if none
day_token_len(rest) ==
    IF Len(rest) >= 3 /\ isdigit(rest[1]) /\ isdigit(rest[2]) /\ rest[3] = ","
          /\ int_of_digits(SubSeq(rest, 1, 2)) \in 1..31
    THEN 2
    ELSE IF Len(rest) >= 2 /\ isdigit(rest[1]) /\ rest[1] # "0" /\ rest[2] = ","
    THEN 1
    ELSE 0

\* datetime.strptime(value, "<month> %d, %Y") with the month directive's
\* names (%B or %b, matched ignoring case): the date, or ok = FALSE for the
\* ValueError of a mismatch, of unconverted data or of an impossible date
strptime(value, names) ==
    LET low == lower(value)
        fail == [ok |-> FALSE, y |-> 0, m |-> 0, d |-> 0]
    IN  IF ~ \E m \in 1..12 : startswith(low, names[m])
        THEN fail
        ELSE
        LET m == CHOOSE mm \in 1..12 : startswith(low, names[mm])
            after_name == SubSeq(value, Len(names[m]) + 1, Len(value))
            r1 == lstrip(after_name)
            dl == day_token_len(r1)
            after_comma == SubSeq(r1, dl + 2, Len(r1))
            r2 == lstrip(after_comma)
        IN  IF /\ Len(r1) < Len(after_name)
               /\ dl > 0
               /\ Len(r2) < Len(after_comma)
               /\ Len(r2) = 4
               /\ \A i \in 1..4 : isdigit(r2[i])
            THEN LET y == int_of_digits(r2)
                     d == int_of_digits(SubSeq(r1, 1, dl))
                 IN  IF y >= 1 /\ d <= days_in_month(y, m)
                     THEN [ok |-> TRUE, y |-> y, m |-> m, d |-> d]
                     ELSE fail
            ELSE fail

\* parsed.strftime("%Y-%m-%d"); the C library's %Y does not pad the year
strftime(p) ==
    digits_of_nat(p.y) \o <<"-">> \o two_digits(p.m) \o <<"-">> \o two_digits(p.d)

\* (mutant) the validator with a calendar check of DD.MM.YYYY
_normalize_invoice_date_calendar_checked(value) ==
    IF falsy(value) THEN Returned(value)
    ELSE IF value.t # "str" THEN Raised("TypeError", <<>>)
    ELSE IF DATE_DD_MM_YYYY_RE(value.s)
    THEN LET day == int_of_digits(SubSeq(value.s, 1, 2))
             month == int_of_digits(SubSeq(value.s, 4, 5))
             year == int_of_digits(SubSeq(value.s, 7, 10))
         IN  IF year >= 1 /\ month \in 1..12 /\ day \in 1..days_in_month(year, month)
             THEN Returned(JStr(SubSeq(value.s, 7, 10) \o <<"-">>
                                \o SubSeq(value.s, 4, 5) \o <<"-">>
                                \o SubSeq(value.s, 1, 2)))
             ELSE Raised("ValueError", <<>>)
    ELSE IF DATE_YYYY_MM_DD_RE(value.s) THEN Returned(value)
    ELSE Raised("ValueError", <<>>)

\* the validator of invoice_date (mode="before"): the outcome for a value
\* of any type. re.match on a value that is not a string raises TypeError.
_normalize_invoice_date(value) ==
    IF falsy(value) THEN Returned(value)
    ELSE IF value.t # "str" THEN Raised("TypeError", <<>>)
    ELSE IF DATE_DD_MM_YYYY_RE(value.s)
    THEN Returned(JStr(SubSeq(value.s, 7, 10) \o <<"-">> \o SubSeq(value.s, 4, 5)
                       \o <<"-">> \o SubSeq(value.s, 1, 2)))
    ELSE IF DATE_YYYY_MM_DD_RE(value.s) THEN Returned(value)
    ELSE IF strptime(value.s, MonthNames).ok
    THEN Returned(JStr(strftime(strptime(value.s, MonthNames))))
    ELSE IF strptime(value.s, MonthAbbrs).ok
    THEN Returned(JStr(strftime(strptime(value.s, MonthAbbrs))))
    ELSE Raised("ValueError", <<>>)

(***************************************************************************)
(* config.py: InvoiceExtract                                               *)
(***************************************************************************)
Placeholders == {S_n_a, S_unknown, <<>>}

\* (mutant) the validator registered for invoice_number as well
NonUnknownFields_with_number ==
    {K_invoice_number, K_company, K_product, K_language, K_total_value, K_currency}

\* the fields _require_non_unknown is registered for
NonUnknownFields == {K_company, K_product, K_language, K_total_value, K_currency}

\* (mutant) the comparison without lower()
_require_non_unknown_case_sensitive(value) ==
    \/ value.t = "null"
    \/ value.t = "str" /\ strip(value.s) \in Placeholders

\* _require_non_unknown(value) raises ValueError
_require_non_unknown(value) ==
    \/ value.t = "null"
    \/ value.t = "str" /\ lower(strip(value.s)) \in Placeholders

\* the model's fields, in the order of their declaration
ProvenanceFields == {K_file_id, K_file_name, K_file_url, K_extraction_date}
RequiredFields == {K_invoice_number, K_invoice_date, K_company, K_product,
                   K_total_value, K_currency}
ModelFields == ProvenanceFields \cup RequiredFields
                   \cup {K_language, K_taxes_paid, K_extra_fields}

\* the default of a field that has one
field_default(f) ==
    CASE f \in ProvenanceFields -> JNull
      [] f = K_language -> JStr(S_unknown)
      [] f = K_taxes_paid -> JStr(S_N_A)
      [] f = K_extra_fields -> JDict(EmptyDict)

\* the type of the field accepts the value (pydantic's lax mode turns no
\* number, bool, list or mapping into a str)
type_accepts(f, v) ==
    CASE f \in ProvenanceFields -> v.t \in {"str", "null"}
      [] f = K_extra_fields -> v.t = "dict"
      [] OTHER -> v.t = "str"

\* the value of field f after its "before" validator, for a present field
validated_value(data, f) ==
    IF f = K_invoice_date THEN _normalize_invoice_date(data[f]).value
    ELSE data[f]

\* field f of the input contributes an error to the ValidationError
field_error(data, f) ==
    IF f \notin DOMAIN data THEN f \in RequiredFields
    ELSE \/ f = K_invoice_date /\ _normalize_invoice_date(data[f]).kind = "ValueError"
         \/ f \in NonUnknownFields /\ _require_non_unknown(data[f])
         \/ ~ (f = K_invoice_date /\ _normalize_invoice_date(data[f]).kind # "ok")
            /\ ~ type_accepts(f, validated_value(data, f))

\* InvoiceExtract.model_validate(data) for a mapping data: extra keys are
\* ignored, defaults are not validated, every failing field is collected;
\* an exception of a validator that is neither ValueError nor AssertionError
\* is not collected and leaves model_validate as it is
model_validate(data) ==
    IF K_invoice_date \in DOMAIN data
          /\ _normalize_invoice_date(data[K_invoice_date]).kind = "TypeError"
    THEN Raised("TypeError", <<>>)
    ELSE LET errors == {f \in ModelFields : field_error(data, f)}
         IN  IF errors # {}
             THEN RaisedValidation(errors)
             ELSE Returned(JDict([f \in ModelFields |->
                     IF f \in DOMAIN data THEN validated_value(data, f)
                     ELSE field_default(f)]))

(***************************************************************************)
(* openrouter.py: OpenRouterService._normalize_extracted_data              *)
(***************************************************************************)
ALLOWED_SCHEMA_KEYS == {K_invoice_number, K_invoice_date, K_company, K_product,
                        K_total_value, K_currency, K_taxes_paid, K_language}
EXTRA_FIELDS_KEY == K_extra_fields

\* str(value) of a scalar or of an empty container (the inputs of the model
\* hand no other value to str)
py_str(v) ==
    CASE v.t = "str" -> v.s
      [] v.t = "int" -> digits_of_int(v.n)
      [] v.t = "float" -> digits_of_int(v.n) \o <<".">> \o v.s
      [] v.t = "bool" -> IF v.n = 1 THEN S_True ELSE S_False
      [] v.t = "null" -> S_None
      [] v.t = "list" /\ v.l = <<>> -> <<"[", "]">>
      [] v.t = "dict" /\ DOMAIN v.d = {} -> <<"{", "}">>

\* len(v) of a value that can be iterated
py_len(v) ==
    CASE v.t = "str" -> Len(v.s)
      [] v.t = "list" -> Len(v.l)
      [] v.t = "dict" -> Cardinality(DOMAIN v.d)

\* dict(value), line 364: a copy of a mapping; of a sequence, the mapping
\* of its key/value pairs. A value that cannot be iterated, or whose first
\* element cannot, raises TypeError; a first element that is not a pair
\* raises ValueError. (No input of the model is a sequence of pairs.)
py_dict(v) ==
    CASE v.t = "dict" -> Returned(v)
      [] v.t \in {"null", "int", "float", "bool"} -> Raised("TypeError", <<>>)
      [] v.t = "str" /\ v.s = <<>> -> Returned(JDict(EmptyDict))
      [] v.t = "str" /\ v.s # <<>> -> Raised("ValueError", <<>>)
      [] v.t = "list" /\ v.l = <<>> -> Returned(JDict(EmptyDict))
      [] v.t = "list" /\ v.l # <<>>
            /\ v.l[1].t \in {"null", "int", "float", "bool"} ->
                Raised("TypeError", <<>>)
      [] v.t = "list" /\ v.l # <<>>
            /\ v.l[1].t \in {"str", "list", "dict"} /\ py_len(v.l[1]) # 2 ->
                Raised("ValueError", <<>>)

\* lines 366-373
rule_company(n) ==
    IF falsy(py_get(n, K_company))
    THEN LET vendor_name == py_get(n, K_vendor_name)
             vendor_details == py_get(n, K_vendor_details)
         IN  IF vendor_name.t = "str" /\ strip(vendor_name.s) # <<>>
             THEN py_set(n, K_company, JStr(strip(vendor_name.s)))
             ELSE IF vendor_details.t = "dict"
                      /\ ~ falsy(py_get(vendor_details.d, K_name))
             THEN py_set(n, K_company, py_get(vendor_details.d, K_name))
             ELSE n
    ELSE n

\* lines 375-380
rule_product(n) ==
    IF falsy(py_get(n, K_product))
    THEN LET line_items == py_get(n, K_line_items)
         IN  IF line_items.t = "list" /\ line_items.l # <<>>
                  /\ line_items.l[1].t = "dict"
                  /\ ~ falsy(py_get(line_items.l[1].d, K_description))
             THEN py_set(n, K_product, py_get(line_items.l[1].d, K_description))
             ELSE n
    ELSE n

\* lines 382-392: field from alias when the field is falsy and the alias
\* is not None
rule_alias(n, field, alias) ==
    IF falsy(py_get(n, field)) /\ py_get(n, alias).t # "null"
    THEN py_set(n, field, JStr(py_str(py_get(n, alias))))
    ELSE n

\* lines 394-397
rule_stringify(n, key) ==
    IF py_get(n, key).t \notin {"null", "str"}
    THEN py_set(n, key, JStr(py_str(py_get(n, key))))
    ELSE n

\* a variant that leaves the language as the response gave it
rule_language_skipped(n) == n

\* lines 399-404
rule_language(n) ==
    IF falsy(py_get(n, K_language))
    THEN LET invoice_date ==
                 IF K_invoice_date \in DOMAIN n THEN n[K_invoice_date]
                 ELSE JStr(<<>>)
         IN  IF invoice_date.t = "str" /\ DATE_DD_MM_YYYY_RE(invoice_date.s)
             THEN py_set(n, K_language, JStr(S_de))
             ELSE py_set(n, K_language, JStr(S_en))
    ELSE n

\* lines 406-408
rule_currency(n) ==
    LET currency == py_get(n, K_currency)
    IN  IF currency.t = "str" /\ strip(currency.s) \in {<<"€">>, S_EURO, S_Euro}
        THEN py_set(n, K_currency, JStr(S_EUR))
        ELSE n

\* lines 410-414
rule_extra_fields(n) ==
    py_set(n, EXTRA_FIELDS_KEY,
           JDict([key \in DOMAIN n \ (ALLOWED_SCHEMA_KEYS \cup {EXTRA_FIELDS_KEY})
                    |-> n[key]]))

_normalize_extracted_data(data) ==
    LET copied == py_dict(data)
    IN  IF copied.kind # "ok" THEN copied
        ELSE
        LET n1 == rule_company(copied.value.d)
            n2 == rule_product(n1)
            n3 == rule_alias(n2, K_total_value, K_total_amount)
            n4 == rule_alias(n3, K_taxes_paid, K_tax_amount)
            n5 == rule_stringify(rule_stringify(n4, K_total_value), K_taxes_paid)
            n6 == rule_language(n5)
            n7 == rule_currency(n6)
        IN  Returned(JDict(rule_extra_fields(n7)))

\* _validate_invoice: model_validate, a ValidationError is logged and
\* raised again
_validate_invoice(data) == model_validate(data.d)

(***************************************************************************)
(* json.loads, as _parse_response_json calls it (openrouter.py line 262):  *)
(* a recursive-descent decoder of objects, arrays, strings, integers,      *)
(* decimals and the literals null, true and false. The texts of the model  *)
(* hold no backslash escape, exponent, negative decimal, NaN or Infinity.  *)
(* A result is [ok, v, i]: whether a value was decoded, the value, and the *)
(* index of the first character after it.                                  *)
(***************************************************************************)
JsonWhitespace == {" ", "\n", "\t", "\r"}

ParseFail == [ok |-> FALSE, v |-> JNull, i |-> 0]
Parsed(v, i) == [ok |-> TRUE, v |-> v, i |-> i]

RECURSIVE skip_ws(_, _)
skip_ws(s, i) ==
    IF i <= Len(s) /\ s[i] \in JsonWhitespace THEN skip_ws(s, i + 1) ELSE i

\* s[i..] starts with the word w
at_word(s, i, w) ==
    i + Len(w) - 1 <= Len(s) /\ SubSeq(s, i, i + Len(w) - 1) = w

\* the index of the first character at or after i that is not a digit
RECURSIVE skip_digits(_, _)
skip_digits(s, i) ==
    IF i <= Len(s) /\ isdigit(s[i]) THEN skip_digits(s, i + 1) ELSE i

\* the decimal digits of a fraction as repr prints them: no trailing zero,
\* at least one digit
RECURSIVE repr_fraction(_)
repr_fraction(f) ==
    IF Len(f) > 1 /\ f[Len(f)] = "0"
    THEN repr_fraction(SubSeq(f, 1, Len(f) - 1))
    ELSE f

\* a string: the characters up to the next quote; a control character
\* inside it is an error
parse_string(s, i) ==
    IF i <= Len(s) /\ s[i] = "\"" /\ \E j \in (i + 1)..Len(s) : s[j] = "\""
    THEN LET j == CHOOSE jj \in (i + 1)..Len(s) :
                     s[jj] = "\"" /\ \A k \in (i + 1)..(jj - 1) : s[k] # "\""
             body == SubSeq(s, i + 1, j - 1)
         IN  IF \E k \in 1..Len(body) : body[k] \in {"\n", "\t", "\r"}
             THEN ParseFail
             ELSE Parsed(JStr(body), j + 1)
    ELSE ParseFail

\* a number: -?(0|[1-9]\d*)(\.\d+)?
parse_number(s, i) ==
    LET neg == i <= Len(s) /\ s[i] = "-"
        a == IF neg THEN i + 1 ELSE i
        b == IF a <= Len(s) /\ s[a] = "0" THEN a + 1 ELSE skip_digits(s, a)
        c == IF b + 1 <= Len(s) /\ s[b] = "." /\ isdigit(s[b + 1])
             THEN skip_digits(s, b + 1) ELSE b
        n == int_of_digits(SubSeq(s, a, b - 1))
    IN  IF b = a THEN ParseFail
        ELSE IF c > b
        THEN Parsed(JFloat(n, repr_fraction(SubSeq(s, b + 1, c - 1))), c)
        ELSE Parsed(JInt(IF neg THEN 0 - n ELSE n), b)

RECURSIVE parse_value(_, _), parse_members(_, _, _), parse_elements(_, _, _)

\* the members of an object, i at the quote that opens the next key
parse_members(s, i, acc) ==
    LET key == parse_string(s, i)
        colon == skip_ws(s, key.i)
        val == parse_value(s, skip_ws(s, colon + 1))
        after == skip_ws(s, val.i)
        d == py_set(acc, key.v.s, val.v)
    IN  IF ~ key.ok THEN ParseFail
        ELSE IF ~ (colon <= Len(s) /\ s[colon] = ":") THEN ParseFail
        ELSE IF ~ val.ok THEN ParseFail
        ELSE IF after <= Len(s) /\ s[after] = "}" THEN Parsed(JDict(d), after + 1)
        ELSE IF after <= Len(s) /\ s[after] = ","
        THEN parse_members(s, skip_ws(s, after + 1), d)
        ELSE ParseFail

\* the elements of an array, i at the start of the next element
parse_elements(s, i, acc) ==
    LET val == parse_value(s, i)
        after == skip_ws(s, val.i)
        l == Append(acc, val.v)
    IN  IF ~ val.ok THEN ParseFail
        ELSE IF after <= Len(s) /\ s[after] = "]" THEN Parsed(JList(l), after + 1)
        ELSE IF after <= Len(s) /\ s[after] = ","
        THEN parse_elements(s, skip_ws(s, after + 1), l)
        ELSE ParseFail

parse_value(s, i) ==
    IF i > Len(s) THEN ParseFail
    ELSE IF s[i] = "{"
    THEN LET j == skip_ws(s, i + 1)
         IN  IF j <= Len(s) /\ s[j] = "}" THEN Parsed(JDict(EmptyDict), j + 1)
             ELSE parse_members(s, j, EmptyDict)
    ELSE IF s[i] = "["
    THEN LET j == skip_ws(s, i + 1)
         IN  IF j <= Len(s) /\ s[j] = "]" THEN Parsed(JList(<<>>), j + 1)
             ELSE parse_elements(s, j, <<>>)
    ELSE IF s[i] = "\"" THEN parse_string(s, i)
    ELSE IF s[i] = "-" \/ isdigit(s[i]) THEN parse_number(s, i)
    ELSE IF at_word(s, i, <<"n", "u", "l", "l">>) THEN Parsed(JNull, i + 4)
    ELSE IF at_word(s, i, <<"t", "r", "u", "e">>) THEN Parsed(JBool(TRUE), i + 4)
    ELSE IF at_word(s, i, <<"f", "a", "l", "s", "e">>) THEN Parsed(JBool(FALSE), i + 5)
    ELSE ParseFail

\* json.loads(s): one value, whitespace around it and nothing else; ok is
\* FALSE where json.loads raises JSONDecodeError
json_loads(s) ==
    LET r == parse_value(s, skip_ws(s, 1))
    IN  IF r.ok /\ skip_ws(s, r.i) = Len(s) + 1 THEN r ELSE ParseFail

\* _parse_response_json(content), the content c a str or None:
\* strip_code_fences returns None for None, and json.loads(None) raises
\* TypeError, which the except clause for JSONDecodeError does not catch
_parse_response_json(c) ==
    IF c.t = "null" THEN Raised("TypeError", <<>>)
    ELSE LET r == json_loads(strip_code_fences(c.s))
         IN  IF r.ok THEN Returned(r.v)
             ELSE Raised("ValueError", <<"P", "A", "R", "S", "E", "_", "E", "R", "R", "O", "R">>)

(***************************************************************************)
(* Inputs: the raw mappings a model answers with. Base is the answer of    *)
(* the tests (tests/test_openrouter.py); the others differ from it in one  *)
(* field, in company and invoice_date, and in the keys outside the schema. *)
(***************************************************************************)
S_INV == <<"I", "N", "V", "-", "1">>
S_Acme == <<"A", "c", "m", "e">>
S_Svc == <<"S", "v", "c">>
S_100 == <<"1", "0", "0">>
S_USD == <<"U", "S", "D">>
S_19 == <<"1", "9">>
S_Unknown == <<"U", "n", "k", "n", "o", "w", "n">>
S_UNKNOWN == <<"U", "N", "K", "N", "O", "W", "N">>
S_NA_x == <<"N", "/", "A", "x">>
S_un_known == <<"u", "n", " ", "k", "n", "o", "w", "n">>
S_german == <<"0", "6", ".", "0", "1", ".", "2", "0", "2", "6">>
S_german_iso == <<"2", "0", "2", "6", "-", "0", "1", "-", "0", "6">>
D_iso == <<"2", "0", "2", "4", "-", "0", "3", "-", "1", "5">>
D_iso_time == <<"2", "0", "2", "4", "-", "0", "3", "-", "1", "5", "T", "1", "0", ":", "0", "0">>
D_german_tail == <<"0", "6", ".", "0", "1", ".", "2", "0", "2", "6", "x">>
D_long == <<"M", "a", "r", "c", "h", " ", "1", "5", ",", " ", "2", "0", "2", "4">>
D_short == <<"M", "a", "r", " ", "5", ",", " ", "2", "0", "2", "4">>
D_lower == <<"m", "a", "r", "c", "h", " ", "1", "5", ",", " ", "2", "0", "2", "4">>
D_feb30 == <<"F", "e", "b", " ", "3", "0", ",", " ", "2", "0", "2", "4">>
D_tail_space == <<"M", "a", "y", " ", "1", ",", " ", "2", "0", "2", "4", " ">>
D_slash == <<"1", "5", "/", "0", "3", "/", "2", "0", "2", "4">>
D_short_iso == <<"2", "0", "2", "4", "-", "3", "-", "1", "5">>
D_lead_space == <<" ", "0", "6", ".", "0", "1", ".", "2", "0", "2", "6">>

\* a field left out of the mapping
ABSENT == [t |-> "absent", s |-> <<>>, n |-> 0, l |-> <<>>, d |-> <<>>]

Base ==
    (K_invoice_number :> JStr(S_INV)) @@ (K_invoice_date :> JStr(D_iso))
    @@ (K_company :> JStr(S_Acme)) @@ (K_product :> JStr(S_Svc))
    @@ (K_total_value :> JStr(S_100)) @@ (K_currency :> JStr(S_USD))
    @@ (K_taxes_paid :> JStr(S_19)) @@ (K_language :> JStr(S_en))

\* m with field f set to v, or without f when v is ABSENT
with_field(m, f, v) ==
    IF v = ABSENT THEN [k \in DOMAIN m \ {f} |-> m[k]] ELSE py_set(m, f, v)

\* m and the keys of extra, extra's value where both have the key
with_keys(m, extra) ==
    [k \in DOMAIN m \cup DOMAIN extra |-> IF k \in DOMAIN extra THEN extra[k] ELSE m[k]]

Blanks(k) == [i \in 1..k |-> " "]

PlaceholderSpellings == {S_n_a, S_N_A, S_unknown, S_Unknown, S_UNKNOWN, <<>>}

PaddedPlaceholders ==
    {Blanks(i) \o p \o Blanks(j) : p \in PlaceholderSpellings, i \in 0..MaxPad, j \in 0..MaxPad}

OtherStrings == {<<"x">>, <<" ", "x", " ">>, S_NA_x, S_un_known, <<"0">>, S_None}

FieldValues ==
    {JStr(s) : s \in PaddedPlaceholders \cup OtherStrings}
        \cup {JNull, JInt(0), JInt(5), JBool(TRUE), ABSENT}

\* DD.MM.YYYY from digit groups, calendar dates or not
GermanDates ==
    {dd \o <<".">> \o mm \o <<".">> \o yyyy :
        dd \in {<<"0", "6">>, <<"3", "1">>, <<"9", "9">>},
        mm \in {<<"0", "1">>, <<"1", "2">>, <<"0", "0">>},
        yyyy \in {<<"2", "0", "2", "6">>, <<"0", "0", "0", "0">>}}

DateValues ==
    {JStr(s) : s \in GermanDates \cup
        {<<>>, D_iso, D_iso_time, D_german_tail, D_long, D_short, D_lower,
         D_feb30, D_tail_space, D_slash, D_short_iso, D_lead_space, S_N_A}}
        \cup {JNull, JInt(0), JInt(20240315), JList(<<>>), ABSENT}

\* the keys outside the schema that come with an answer
ExtraKeySets ==
    { EmptyDict,
      (K_foo :> JInt(1)),
      (K_extra_fields :> JDict((K_foo :> JInt(1)))),
      (K_file_id :> JStr(<<"f", "1">>)) @@ (K_foo :> JStr(<<"x">>)),
      (K_vendor_name :> JStr(<<" ", "V", " ">>))
          @@ (K_vendor_details :> JDict((K_name :> JStr(<<"D">>)))),
      (K_line_items :> JList(<<JDict((K_description :> JStr(<<"L">>)))>>))
          @@ (K_total_amount :> JInt(200))
          @@ (K_tax_amount :> JFloat(19, <<"0">>)) }

VariedFields == {K_invoice_number, K_company, K_product, K_total_value,
                 K_currency, K_language, K_taxes_paid}

\* Base with one field changed
OneFieldMappings ==
    {with_field(Base, f, v) : f \in VariedFields, v \in FieldValues}
        \cup {with_field(Base, K_invoice_date, v) : v \in DateValues}

\* Base with company and invoice_date changed
CompanyDateMappings ==
    {with_field(with_field(Base, K_company, c), K_invoice_date, dt) :
        c \in {JStr(S_Acme), JStr(<<>>), ABSENT}, dt \in DateValues}

\* Base with language and invoice_date changed
LanguageDateMappings ==
    {with_field(with_field(Base, K_language, l), K_invoice_date, dt) :
        l \in {ABSENT, JNull, JStr(<<>>), JStr(S_unknown)}, dt \in DateValues}

RawMappings ==
    {with_keys(m, x) : m \in OneFieldMappings \cup CompanyDateMappings
                                \cup LanguageDateMappings,
                       x \in ExtraKeySets}

(***************************************************************************)
(* Harness of strip_code_fences: texts are concatenations of at most       *)
(* MaxTokens tokens.                                                       *)
(***************************************************************************)
TextTokens == {FENCE, JSON_TAG, <<BACKTICK>>, <<"{">>, <<"}">>, <<" ">>, <<"\n">>, <<"a">>}

RECURSIVE Concat(_)
Concat(ts) == IF ts = <<>> THEN <<>> ELSE Head(ts) \o Concat(Tail(ts))

TokenSeqs(n) == UNION {[1..k -> TextTokens] : k \in 0..n}

SanitizeTexts == {Concat(ts) : ts \in TokenSeqs(MaxTokens)}

NoPayload == [model |-> <<>>, max_tokens |-> 0, response_format |-> FALSE,
              reasoning |-> "none"]

IdleAttempt ==
    /\ pc = "idle" /\ model = <<>> /\ payload = NoPayload
    /\ sent = <<>> /\ received = <<>>
    /\ content = JNull /\ finish_reason = "none"
    /\ extracted_data = JNull /\ normalized_data = JNull
    /\ outcome = Returned(JNull)
    /\ last_usage = 0 /\ last_headers = 0
    /\ stages = <<>>
    /\ retries = <<>> /\ http = <<>>

IdleRun ==
    /\ sheet_rows = <<>> /\ runs = 0 /\ r_pc = "idle"
    /\ processed_ids = {} /\ new_files = <<>>
    /\ downloads = <<>> /\ futures = <<>> /\ collected = {}
    /\ extracted_invoices = <<>> /\ processed_count = 0
    /\ service_usage = 0

IdleDump ==
    /\ d_pc = <<>> /\ d_counter = <<>> /\ dump_paths = <<>>
    /\ writes = <<>>

IdleLocal ==
    /\ l_pc = "idle" /\ l_models = <<>> /\ l_futures = <<>>
    /\ ordered = <<>> /\ results = <<>>

\* what request.execute() does, or what _execute_with_retry ends with
ExecuteOutcome(kind, status) == [kind |-> kind, status |-> status]

IdleExecute ==
    /\ e_pc = "idle" /\ e_attempt = 0 /\ e_seen = <<>>
    /\ e_out = ExecuteOutcome("none", 0)

IdleName ==
    /\ n_pc = "idle" /\ n_date = JNull
    /\ n_valid = Returned(JNull) /\ n_sheet = <<>>

IdleAux == IdleLocal /\ IdleExecute /\ IdleName

IdlePool == IdleRun /\ IdleDump /\ IdleAux

IdleSanitize ==
    s_pc = "idle" /\ s_text = <<>> /\ s_once = <<>> /\ s_twice = <<>>

IdleValidate ==
    /\ v_pc = "idle" /\ v_raw = EmptyDict
    /\ v_norm = Returned(JNull) /\ v_out = Returned(JNull)

InitSanitize ==
    /\ s_pc = "in"
    /\ s_text \in SanitizeTexts
    /\ s_once = <<>>
    /\ s_twice = <<>>
    /\ IdleValidate
    /\ IdleAttempt
    /\ IdlePool

\* sanitize(x)
SanitizeOnce ==
    /\ s_pc = "in"
    /\ s_once' = strip_code_fences(s_text)
    /\ s_pc' = "once"
    /\ UNCHANGED <<s_text, s_twice, validate_vars, attempt_vars,
                   pool_vars>>

\* sanitize(sanitize(x))
SanitizeTwice ==
    /\ s_pc = "once"
    /\ s_twice' = strip_code_fences(s_once)
    /\ s_pc' = "twice"
    /\ UNCHANGED <<s_text, s_once, validate_vars, attempt_vars,
                   pool_vars>>

NextSanitize == SanitizeOnce \/ SanitizeTwice

SpecSanitize == InitSanitize /\ [][NextSanitize]_vars

(***************************************************************************)
(* Harness of the normalizer and the validator: a raw mapping is validated *)
(* as it is (InvoiceExtract.model_validate), or normalized and then        *)
(* validated, as extract_invoice_data does in lines 190-191.               *)
(***************************************************************************)
InitValidate ==
    /\ v_pc = "in"
    /\ v_raw \in RawMappings
    /\ v_norm = Returned(JNull)
    /\ v_out = Returned(JNull)
    /\ IdleSanitize
    /\ IdleAttempt
    /\ IdlePool

\* InvoiceExtract.model_validate(raw)
ValidateDirect ==
    /\ v_pc = "in"
    /\ v_out' = model_validate(v_raw)
    /\ v_pc' = "direct"
    /\ UNCHANGED <<v_raw, v_norm, sanitize_vars, attempt_vars,
                   pool_vars>>

\* _normalize_extracted_data(raw)
Normalize ==
    /\ v_pc = "in"
    /\ v_norm' = _normalize_extracted_data(JDict(v_raw))
    /\ v_pc' = "normalized"
    /\ UNCHANGED <<v_raw, v_out, sanitize_vars, attempt_vars,
                   pool_vars>>

\* _validate_invoice(normalized)
ValidateNormalized ==
    /\ v_pc = "normalized"
    /\ v_norm.kind = "ok"
    /\ v_out' = _validate_invoice(v_norm.value)
    /\ v_pc' = "validated"
    /\ UNCHANGED <<v_raw, v_norm, sanitize_vars, attempt_vars,
                   pool_vars>>

NextValidate == ValidateDirect \/ Normalize \/ ValidateNormalized

SpecValidate == InitValidate /\ [][NextValidate]_vars

(***************************************************************************)
(* Inputs of an extraction attempt: the model ids, and the responses the   *)
(* API answers with. A content is the JSON text of a raw mapping (as       *)
(* json.dumps writes it in the tests), that text inside fences or prose,   *)
(* text that is no JSON, JSON that is no object, or null.                  *)
(***************************************************************************)
MODEL == <<"g", "o", "o", "g", "l", "e", "/", "g", "e", "m", "i", "n", "i", "-", "2", ".", "5", "-", "f", "l", "a", "s", "h", "-", "l", "i", "t", "e">>
\* a variant: every model of the vendor
OPENAI_PREFIX == <<"o", "p", "e", "n", "a", "i", "/">>
GPT5_PREFIX == <<"o", "p", "e", "n", "a", "i", "/", "g", "p", "t", "-", "5">>
MISTRAL_PREFIX == <<"m", "i", "s", "t", "r", "a", "l", "a", "i", "/">>
M_gpt5 == <<"o", "p", "e", "n", "a", "i", "/", "g", "p", "t", "-", "5", "-", "m", "i", "n", "i">>
M_mistral == <<"m", "i", "s", "t", "r", "a", "l", "a", "i", "/", "m", "i", "s", "t", "r", "a", "l", "-", "s", "m", "a", "l", "l">>
M_gpt4o == <<"o", "p", "e", "n", "a", "i", "/", "g", "p", "t", "-", "4", "o">>

Models == {MODEL, M_gpt5, M_mistral, M_gpt4o}

S_not_json == <<"T", "h", "i", "s", " ", "i", "s", " ", "n", "o", "t", " ", "v", "a", "l", "i", "d", " ", "J", "S", "O", "N">>
S_ERROR == <<"E", "R", "R", "O", "R", ":", " ">>
S_NO_CHOICES == <<"N", "O", "_", "C", "H", "O", "I", "C", "E", "S">>
S_PARSE_ERROR == <<"P", "A", "R", "S", "E", "_", "E", "R", "R", "O", "R">>

\* the order in which a mapping's keys are written
KeyOrder == <<K_invoice_number, K_invoice_date, K_company, K_product,
              K_total_value, K_currency, K_taxes_paid, K_language,
              K_extra_fields, K_file_id, K_foo, K_vendor_name, K_vendor_details,
              K_name, K_line_items, K_description, K_total_amount, K_tax_amount>>

RECURSIVE dumps(_), dumps_members(_, _, _), dumps_elements(_, _)

\* json.dumps(v)
dumps(v) ==
    CASE v.t = "str" -> <<"\"">> \o v.s \o <<"\"">>
      [] v.t = "int" -> digits_of_int(v.n)
      [] v.t = "float" -> digits_of_int(v.n) \o <<".">> \o v.s
      [] v.t = "bool" -> IF v.n = 1 THEN <<"t", "r", "u", "e">>
                         ELSE <<"f", "a", "l", "s", "e">>
      [] v.t = "null" -> <<"n", "u", "l", "l">>
      [] v.t = "list" -> <<"[">> \o dumps_elements(v.l, 1) \o <<"]">>
      [] v.t = "dict" -> <<"{">> \o dumps_members(v.d, 1, TRUE) \o <<"}">>

dumps_members(d, i, first) ==
    IF i > Len(KeyOrder) THEN <<>>
    ELSE IF KeyOrder[i] \notin DOMAIN d THEN dumps_members(d, i + 1, first)
    ELSE (IF first THEN <<>> ELSE <<",", " ">>)
         \o <<"\"">> \o KeyOrder[i] \o <<"\"", ":", " ">> \o dumps(d[KeyOrder[i]])
         \o dumps_members(d, i + 1, FALSE)

dumps_elements(l, i) ==
    IF i > Len(l) THEN <<>>
    ELSE (IF i = 1 THEN <<>> ELSE <<",", " ">>) \o dumps(l[i])
         \o dumps_elements(l, i + 1)

\* the mappings an attempt's responses carry
AttemptMappings ==
    CompanyDateMappings
    \cup {with_keys(with_field(Base, K_company, c), x) :
            c \in {JStr(S_Acme), JStr(<<>>)}, x \in ExtraKeySets}
    \cup {with_field(Base, f, v) :
            f \in VariedFields, v \in {JStr(S_N_A), JInt(5), JNull, ABSENT}}

BaseText == dumps(JDict(Base))

\* the text of Base inside fences and prose
WrappedTexts ==
    { FENCE \o JSON_TAG \o <<"\n">> \o BaseText \o <<"\n">> \o FENCE,
      FENCE \o <<"\n">> \o BaseText \o <<"\n">> \o FENCE,
      <<"H", "e", "r", "e", ":", " ">> \o BaseText \o <<" ", "D", "o", "n", "e", ".">>,
      <<" ">> \o BaseText \o <<"\n">> }

\* text that json.loads rejects
NotJsonTexts ==
    { S_not_json, <<>>, <<" ">>, <<"\n">>, <<"{">>,
      SubSeq(BaseText, 1, Len(BaseText) - 1),
      FENCE \o FENCE \o BaseText,
      <<"{", "\"", "a", "\"", ":", " ", "1", ",", "}">> }

\* JSON that is no object
NotObjectTexts ==
    { <<"[", "1", ",", " ", "2", "]">>, <<"[", "]">>, <<"5">>,
      <<"\"", "x", "\"">>, <<"\"", "\"">>, <<"n", "u", "l", "l">>,
      <<"t", "r", "u", "e">>, <<"[", "\"", "a", "\"", "]">> }

Contents ==
    {JStr(dumps(JDict(m))) : m \in AttemptMappings}
    \cup {JStr(t) : t \in WrappedTexts \cup NotJsonTexts \cup NotObjectTexts}
    \cup {JNull}

\* the contents that come with a finish reason other than "stop"
TruncatedContents ==
    {JStr(BaseText), JStr(SubSeq(BaseText, 1, Len(BaseText) - 1)), JStr(<<>>), JNull}

Choice(c, fr, nfr) ==
    [content |-> c, finish_reason |-> fr, native_finish_reason |-> nfr]

\* the choices lists of the responses; "none" is an absent or null reason
ChoiceLists ==
    {<<>>}
    \cup {<<Choice(c, "stop", "none")>> : c \in Contents}
    \cup {<<Choice(c, fr, nfr)>> :
            c \in TruncatedContents,
            fr \in {"length", "none"}, nfr \in {"length", "none"}}

\* the choices lists of the responses to a SEND that needed more than one
\* HTTP attempt
RetriedChoiceLists ==
    {<<>>, <<Choice(JStr(BaseText), "stop", "none")>>,
     <<Choice(JStr(<<>>), "stop", "none")>>,
     <<Choice(JStr(BaseText), "length", "none")>>,
     <<Choice(JStr(S_not_json), "stop", "none")>>}

\* a response, with the usage and the headers it is sent with
Response(choices, usage, headers) ==
    [choices |-> choices, usage |-> usage, headers |-> headers]

(***************************************************************************)
(* openrouter.py: OpenRouterService.extract_invoice_data                   *)
(***************************************************************************)
(***************************************************************************)
(* openrouter.py: _build_session, _send_request and _send_or_raise. One    *)
(* SEND is one session.post: urllib3 makes HTTP attempts under the Retry   *)
(* object of _build_session until an attempt is not retried.               *)
(***************************************************************************)
\* Retry(total=3, connect=3, read=3, status=3): every retried attempt takes
\* one off total and at most one off each of the others, so total is the
\* first to run out
RETRY_TOTAL == 3
status_forcelist == {429, 500, 502, 503, 504}
\* urllib3's Retry.RETRY_AFTER_STATUS_CODES (respect_retry_after_header is
\* left at its default, True)
RETRY_AFTER_STATUS_CODES == {413, 429, 503}

\* the outcome of one HTTP attempt: a response with a status, with or
\* without a Retry-After header, a connection failure or a read timeout
HttpResponse(status, retry_after) ==
    [kind |-> "response", status |-> status, retry_after |-> retry_after]
ConnectionFailure == [kind |-> "connect", status |-> 0, retry_after |-> FALSE]
ReadTimeout == [kind |-> "read", status |-> 0, retry_after |-> FALSE]

HttpFailures ==
    {HttpResponse(st, FALSE) :
        st \in {400, 401, 404, 413, 429, 500, 502, 503, 504}}
    \cup {HttpResponse(413, TRUE), ConnectionFailure, ReadTimeout}

\* Retry.is_retry("POST", status, has_retry_after) with total left, for a
\* response; an error of the connection is handed to Retry.increment always
is_retry(o, total) ==
    \/ o.kind \in {"connect", "read"}
    \/ o.kind = "response" /\ o.status \in status_forcelist
    \/ o.kind = "response" /\ total # 0 /\ o.retry_after
          /\ o.status \in RETRY_AFTER_STATUS_CODES

\* total left for the HTTP attempt under way
total_left == RETRY_TOTAL - Len(retries)

\* Retry.increment leaves a Retry that is not exhausted: urllib3 sleeps and
\* makes another HTTP attempt
is_retried(o) == is_retry(o, total_left) /\ total_left - 1 >= 0

\* response.raise_for_status() of a response that is not ok, or the
\* ConnectionError that requests raises for urllib3's MaxRetryError; both
\* are a requests.RequestException, which _send_or_raise wraps
transport_error(o) ==
    Raised("ValueError",
           S_ERROR \o (IF o.kind = "response" THEN digits_of_nat(o.status) ELSE <<>>))

\* the SEND under way ends with the HTTP attempt o
completed(o) ==
    http' = Append(http, [attempts |-> Len(retries) + 1, last |-> o])

\* (mutant) _extract_content without the check for an empty choices list
_extract_content_unchecked(result) ==
    IF result.choices = <<>> THEN Returned(JStr(<<>>))
    ELSE Returned(result.choices[1].content)

\* _extract_content(result)
_extract_content(result) ==
    IF result.choices = <<>>
    THEN Raised("ValueError", S_NO_CHOICES)
    ELSE Returned(result.choices[1].content)

\* _extract_finish_reason(result)
_extract_finish_reason(result) ==
    IF result.choices = <<>> THEN "none"
    ELSE IF result.choices[1].finish_reason # "none"
    THEN result.choices[1].finish_reason
    ELSE result.choices[1].native_finish_reason

Max(a, b) == IF a >= b THEN a ELSE b

Fail(exception) ==
    /\ outcome' = exception
    /\ pc' = "DONE"
    /\ stages' = Append(stages, "DONE")

Enter(stage) ==
    /\ pc' = stage
    /\ stages' = Append(stages, stage)

Init ==
    /\ pc = "BUILD_REQUEST"
    /\ model \in Models
    /\ payload = NoPayload
    /\ sent = <<>> /\ received = <<>>
    /\ content = JNull /\ finish_reason = "none"
    /\ extracted_data = JNull /\ normalized_data = JNull
    /\ outcome = Returned(JNull)
    /\ last_usage = 0 /\ last_headers = 0
    /\ stages = <<"BUILD_REQUEST">>
    /\ retries = <<>> /\ http = <<>>
    /\ IdleSanitize
    /\ IdleValidate
    /\ IdlePool

\* lines 106-167: the payload of the request
BuildRequest ==
    /\ pc = "BUILD_REQUEST"
    /\ payload' =
        [model |-> model,
         max_tokens |-> IF startswith(model, GPT5_PREFIX) THEN 2000 ELSE 1000,
         response_format |-> ~ startswith(model, MISTRAL_PREFIX),
         reasoning |-> IF startswith(model, GPT5_PREFIX) THEN "minimal" ELSE "none"]
    /\ Enter("SEND")
    /\ UNCHANGED <<model, sent, received, content, finish_reason, extracted_data,
                   normalized_data, outcome, last_usage, last_headers,
                   retries, http, sanitize_vars, validate_vars,
                   pool_vars>>

\* urllib3's urlopen under the Retry of _build_session: an HTTP attempt of
\* the SEND under way (the first or the one of the retry) fails in a way
\* that is retried, and another attempt follows
HttpRetry ==
    /\ pc \in {"SEND", "RETRY_ONCE"}
    /\ \E o \in HttpFailures :
        /\ is_retried(o)
        /\ retries' = Append(retries, o)
    /\ UNCHANGED <<pc, model, payload, sent, received, content, finish_reason,
                   extracted_data, normalized_data, outcome, last_usage,
                   last_headers, stages, http, sanitize_vars, validate_vars,
                   pool_vars>>

\* the choices lists of the response that ends the SEND under way
ArrivingChoiceLists == IF retries = <<>> THEN ChoiceLists ELSE RetriedChoiceLists

\* lines 168-172: _send_or_raise returns the response of an HTTP attempt
\* with status 200; _log_usage keeps its usage and headers
Send ==
    /\ pc = "SEND"
    /\ \E choices \in ArrivingChoiceLists :
        LET result == Response(choices, Len(received) + 1, Len(received) + 1)
        IN  /\ received' = Append(received, result)
            /\ last_usage' = result.usage
            /\ last_headers' = result.headers
    /\ sent' = Append(sent, payload.max_tokens)
    /\ completed(HttpResponse(200, FALSE))
    /\ retries' = <<>>
    /\ Enter("CHECK_COMPLETION")
    /\ UNCHANGED <<model, payload, content, finish_reason, extracted_data,
                   normalized_data, outcome, sanitize_vars, validate_vars,
                   pool_vars>>

\* lines 193-214: the last HTTP attempt of the SEND fails and is not
\* retried; _send_request raises a requests.RequestException, which
\* _send_or_raise turns into ValueError("ERROR: ...")
SendFails ==
    /\ pc = "SEND"
    /\ \E o \in HttpFailures :
        /\ ~ is_retried(o)
        /\ completed(o)
        /\ Fail(transport_error(o))
    /\ sent' = Append(sent, payload.max_tokens)
    /\ retries' = <<>>
    /\ UNCHANGED <<model, payload, received, content, finish_reason,
                   extracted_data, normalized_data, last_usage, last_headers,
                   sanitize_vars, validate_vars,
                   pool_vars>>

\* lines 174-181: the content and the finish reason of the first response,
\* and whether to send again
CheckCompletion ==
    /\ pc = "CHECK_COMPLETION"
    /\ LET result == received[Len(received)]
           extracted == _extract_content(result)
           reason == _extract_finish_reason(result)
       IN  IF extracted.kind # "ok"
           THEN /\ Fail(extracted)
                /\ UNCHANGED <<content, finish_reason, payload,
                   pool_vars>>
           ELSE /\ content' = extracted.value
                /\ finish_reason' = reason
                /\ payload' = IF reason = "length"
                              THEN [payload EXCEPT !.max_tokens =
                                        Max(payload.max_tokens * 2, 2000)]
                              ELSE payload
                /\ IF extracted.value.t = "null"
                   \* content.strip() on None
                   THEN Fail(Raised("AttributeError", <<>>))
                   ELSE IF strip(extracted.value.s) = <<>> \/ reason = "length"
                   THEN Enter("RETRY_ONCE") /\ UNCHANGED outcome
                   ELSE Enter("PARSE") /\ UNCHANGED outcome
    /\ UNCHANGED <<model, sent, received, extracted_data, normalized_data,
                   last_usage, last_headers, retries, http,
                   sanitize_vars, validate_vars,
                   pool_vars>>

\* a variant that keeps the first content when the second one is blank
content_kept_if_retry_blank(first, second) ==
    IF second.t = "str" /\ strip(second.s) = <<>> THEN first ELSE second

\* line 187: content is assigned anew from the second response
content_after_retry(first, second) == second

\* lines 182-187: the second SEND and the content of its response
RetryOnce ==
    /\ pc = "RETRY_ONCE"
    /\ \E choices \in ArrivingChoiceLists :
        LET result == Response(choices, Len(received) + 1, Len(received) + 1)
            extracted == _extract_content(result)
        IN  /\ received' = Append(received, result)
            /\ last_usage' = result.usage
            /\ last_headers' = result.headers
            /\ IF extracted.kind # "ok"
               THEN Fail(extracted) /\ UNCHANGED content
               ELSE /\ content' = content_after_retry(content, extracted.value)
                    /\ Enter("PARSE")
                    /\ UNCHANGED outcome
    /\ sent' = Append(sent, payload.max_tokens)
    /\ completed(HttpResponse(200, FALSE))
    /\ retries' = <<>>
    /\ UNCHANGED <<model, payload, finish_reason, extracted_data,
                   normalized_data, sanitize_vars, validate_vars,
                   pool_vars>>

\* line 182: the second _send_or_raise raises
RetryFails ==
    /\ pc = "RETRY_ONCE"
    /\ \E o \in HttpFailures :
        /\ ~ is_retried(o)
        /\ completed(o)
        /\ Fail(transport_error(o))
    /\ sent' = Append(sent, payload.max_tokens)
    /\ retries' = <<>>
    /\ UNCHANGED <<model, payload, received, content, finish_reason,
                   extracted_data, normalized_data, last_usage, last_headers,
                   sanitize_vars, validate_vars,
                   pool_vars>>

\* line 189: _parse_response_json(content)
Parse ==
    /\ pc = "PARSE"
    /\ LET parsed == _parse_response_json(content)
       IN  IF parsed.kind = "ok"
           THEN /\ extracted_data' = parsed.value
                /\ Enter("NORMALIZE")
                /\ UNCHANGED outcome
           ELSE Fail(parsed) /\ UNCHANGED extracted_data
    /\ UNCHANGED <<model, payload, sent, received, content, finish_reason,
                   normalized_data, last_usage, last_headers, retries, http,
                   sanitize_vars, validate_vars,
                   pool_vars>>

\* line 190: _normalize_extracted_data(extracted_data)
NormalizeData ==
    /\ pc = "NORMALIZE"
    /\ LET normalized == _normalize_extracted_data(extracted_data)
       IN  IF normalized.kind = "ok"
           THEN /\ normalized_data' = normalized.value
                /\ Enter("VALIDATE")
                /\ UNCHANGED outcome
           ELSE Fail(normalized) /\ UNCHANGED normalized_data
    /\ UNCHANGED <<model, payload, sent, received, content, finish_reason,
                   extracted_data, last_usage, last_headers, retries, http,
                   sanitize_vars, validate_vars,
                   pool_vars>>

\* line 191: _validate_invoice(normalized_data), returned or raised
Validate ==
    /\ pc = "VALIDATE"
    /\ outcome' = _validate_invoice(normalized_data)
    /\ Enter("DONE")
    /\ UNCHANGED <<model, payload, sent, received, content, finish_reason,
                   extracted_data, normalized_data, last_usage, last_headers,
                   retries, http, sanitize_vars, validate_vars,
                   pool_vars>>

Next ==
    \/ BuildRequest
    \/ HttpRetry
    \/ Send
    \/ SendFails
    \/ CheckCompletion
    \/ RetryOnce
    \/ RetryFails
    \/ Parse
    \/ NormalizeData
    \/ Validate

Spec == Init /\ [][Next]_vars

(***************************************************************************)
(* app.py: InvoiceProcessor.run over the drive folder and the spreadsheet. *)
(* A file is known by its ID; its download and its extraction end in any   *)
(* of the ways _download_pdf and extract_invoice_data can end.             *)
(***************************************************************************)
FileIds == {"f1", "f2"}

\* utils.sheet_name_for_date of the invoice_date of a record
SheetNames == {"Invoices 2024", "Invoices Unknown"}

\* what GoogleDriveService.get_pdf_files returns: a file with two parents
\* in the folder tree is listed once per parent
Listings == UNION {[1..n -> FileIds] : n \in 0..MaxFiles}

\* PoolExecutor(max_workers=5)
MAX_WORKERS == 5

\* the ways drive_service.download_pdf ends: content, no content, or an
\* exception
DownloadOutcomes == {"bytes", "empty", "HttpError", "Exception"}

\* the exceptions extract_invoice_data raises (ValueError and
\* ValidationError by design, AttributeError and TypeError for a response
\* with null content or a field of the wrong type)
ExtractionErrors == {"ValueError", "ValidationError", "AttributeError", "TypeError"}

\* line 91: except (ValueError, ValidationError) in _extract_invoice
caught_by_extract_invoice(exception) ==
    exception \in {"ValueError", "ValidationError"}

\* (mutant) the collection loop catching the typed failures only
caught_typed_only(exception) ==
    exception \in {"ValueError", "ValidationError"}

\* line 147: except Exception around future.result()
caught_at_collection(exception) == TRUE

\* a task: where it is, the sheet of the record it returned and the
\* exception it raised
Future(st, sheet, exception) == [st |-> st, sheet |-> sheet, exception |-> exception]
finished(f) == f.st \in {"invoice", "None", "raised"}
positions == 1..Len(new_files)

\* sheets.get_processed_file_ids: column A of every invoice sheet
get_processed_file_ids ==
    {sheet_rows[i].file_id : i \in 1..Len(sheet_rows)}

RECURSIVE select_new(_, _)
\* line 121: [f for f in pdf_files if f["id"] not in processed_ids]
select_new(pdf_files, ids) ==
    IF pdf_files = <<>> THEN <<>>
    ELSE (IF Head(pdf_files) \in ids THEN <<>> ELSE <<Head(pdf_files)>>)
         \o select_new(Tail(pdf_files), ids)

\* lines 136-141: one task per downloaded file
submitted(outcomes) ==
    [i \in DOMAIN outcomes |->
        IF outcomes[i] = "bytes" THEN Future("queued", "", "")
        ELSE Future("skipped", "", "")]

InitRun ==
    /\ sheet_rows = <<>> /\ runs = 0 /\ r_pc = "idle"
    /\ processed_ids = {} /\ new_files = <<>>
    /\ downloads = <<>> /\ futures = <<>> /\ collected = {}
    /\ extracted_invoices = <<>> /\ processed_count = 0
    /\ service_usage = 0
    /\ IdleAttempt /\ IdleSanitize /\ IdleValidate /\ IdleDump /\ IdleAux

\* lines 115-125: the processed IDs, the listing and the new files; an
\* HttpError of the spreadsheet read is not caught and ends the run
RunStart ==
    /\ r_pc \in {"idle", "done", "crashed"}
    /\ runs < MaxRuns
    /\ runs' = runs + 1
    /\ \/ \E pdf_files \in Listings :
            LET ids == get_processed_file_ids
                new == select_new(pdf_files, ids)
            IN  /\ processed_ids' = ids
                /\ new_files' = new
                /\ downloads' = [i \in 1..Len(new) |-> "pending"]
                /\ futures' = <<>>
                /\ r_pc' = IF new = <<>> THEN "pool" ELSE "download"
       \/ /\ r_pc' = "crashed"
          /\ processed_ids' = {} /\ new_files' = <<>>
          /\ downloads' = <<>> /\ futures' = <<>>
    /\ collected' = {}
    /\ extracted_invoices' = <<>>
    /\ processed_count' = 0
    /\ service_usage' = 0
    /\ UNCHANGED <<sheet_rows, attempt_vars, sanitize_vars, validate_vars, dump_vars, aux_vars>>

\* lines 127-141: _download_pdf for the next new file; after the last one,
\* a _process_content task is submitted for every downloaded file
Download ==
    /\ r_pc = "download"
    /\ LET i == CHOOSE k \in positions :
                    downloads[k] = "pending" /\ \A j \in 1..(k - 1) : downloads[j] # "pending"
       IN  \E o \in DownloadOutcomes :
            LET outcomes == [downloads EXCEPT ![i] = o]
            IN  /\ downloads' = outcomes
                /\ IF i = Len(new_files)
                   THEN futures' = submitted(outcomes) /\ r_pc' = "pool"
                   ELSE UNCHANGED <<futures, r_pc>>
    /\ UNCHANGED <<sheet_rows, runs, processed_ids, new_files, collected,
                   extracted_invoices, processed_count, service_usage,
                   attempt_vars, sanitize_vars, validate_vars, dump_vars, aux_vars>>

\* a worker of the pool takes a task
WorkerStart(i) ==
    /\ r_pc = "pool"
    /\ futures[i].st = "queued"
    /\ Cardinality({k \in DOMAIN futures : futures[k].st \in {"running", "logged"}})
            < MAX_WORKERS
    /\ futures' = [futures EXCEPT ![i] = Future("running", "", "")]
    /\ UNCHANGED <<sheet_rows, runs, r_pc, processed_ids, new_files, downloads,
                   collected, extracted_invoices, processed_count, service_usage,
                   attempt_vars, sanitize_vars, validate_vars, dump_vars, aux_vars>>

\* openrouter.py lines 230-233: the task's extract_invoice_data has a
\* response and _log_usage sets last_usage of the one OpenRouterService of
\* the InvoiceProcessor
WorkerLogUsage(i) ==
    /\ r_pc = "pool"
    /\ futures[i].st = "running"
    /\ futures' = [futures EXCEPT ![i] = Future("logged", "", "")]
    /\ service_usage' = i
    /\ UNCHANGED <<sheet_rows, runs, r_pc, processed_ids, new_files, downloads,
                   collected, extracted_invoices, processed_count,
                   attempt_vars, sanitize_vars, validate_vars, dump_vars, aux_vars>>

\* lines 55-70 and 83-93: _process_content ends: with the record, with
\* None for an exception _extract_invoice catches, or with the exception.
\* Before any response the attempt can only fail in the transport.
WorkerEnd(i) ==
    /\ r_pc = "pool"
    /\ \/ /\ futures[i].st = "logged"
          /\ \E sheet \in SheetNames :
                futures' = [futures EXCEPT ![i] = Future("invoice", sheet, "")]
       \/ /\ futures[i].st \in {"running", "logged"}
          /\ \E exception \in ExtractionErrors :
                /\ futures[i].st = "running" => exception = "ValueError"
                /\ futures' = [futures EXCEPT ![i] =
                        IF caught_by_extract_invoice(exception)
                        THEN Future("None", "", "")
                        ELSE Future("raised", "", exception)]
    /\ UNCHANGED <<sheet_rows, runs, r_pc, processed_ids, new_files, downloads,
                   collected, extracted_invoices, processed_count, service_usage,
                   attempt_vars, sanitize_vars, validate_vars, dump_vars, aux_vars>>

\* lines 143-152: as_completed hands over a finished task
Collect(i) ==
    /\ r_pc = "pool"
    /\ i \notin collected
    /\ finished(futures[i])
    /\ collected' = collected \cup {i}
    /\ IF futures[i].st = "raised" /\ ~ caught_at_collection(futures[i].exception)
       THEN r_pc' = "crashed" /\ UNCHANGED extracted_invoices
       ELSE /\ UNCHANGED r_pc
            /\ extracted_invoices' =
                IF futures[i].st = "invoice"
                THEN Append(extracted_invoices, i) ELSE extracted_invoices
    /\ UNCHANGED <<sheet_rows, runs, processed_ids, new_files, downloads,
                   futures, processed_count, service_usage,
                   attempt_vars, sanitize_vars, validate_vars, dump_vars, aux_vars>>

\* the sheets of the batch, in the order append_invoices_batch meets them
RECURSIVE grouped(_, _)
grouped(invoices, seen) ==
    IF invoices = <<>> THEN <<>>
    ELSE LET sheet == futures[Head(invoices)].sheet
         IN  IF sheet \in seen THEN grouped(Tail(invoices), seen)
             ELSE <<sheet>> \o grouped(Tail(invoices), seen \cup {sheet})

RECURSIVE rows_of(_, _)
\* sheets.py lines 165-181: the rows of one sheet
rows_of(invoices, sheet) ==
    IF invoices = <<>> THEN <<>>
    ELSE (IF futures[Head(invoices)].sheet = sheet
          THEN <<[file_id |-> new_files[Head(invoices)], sheet |-> sheet]>>
          ELSE <<>>) \o rows_of(Tail(invoices), sheet)

RECURSIVE rows_of_groups(_, _, _)
rows_of_groups(invoices, groups, n) ==
    IF n = 0 THEN <<>>
    ELSE rows_of(invoices, Head(groups)) \o rows_of_groups(invoices, Tail(groups), n - 1)

\* lines 154-173 and sheets.py lines 155-196: the batch is appended sheet
\* by sheet; an HttpError at one sheet leaves the sheets before it written
\* and appended_ids empty; the invoices with an appended ID are counted
AppendBatch ==
    /\ r_pc = "pool"
    /\ \A i \in DOMAIN futures : futures[i].st = "skipped" \/ i \in collected
    /\ LET groups == grouped(extracted_invoices, {})
       IN  \E n \in 0..Len(groups) :
            /\ sheet_rows' = sheet_rows \o rows_of_groups(extracted_invoices, groups, n)
            /\ processed_count' =
                IF n = Len(groups) THEN Len(extracted_invoices) ELSE 0
    /\ r_pc' = "done"
    /\ UNCHANGED <<runs, processed_ids, new_files, downloads, futures, collected,
                   extracted_invoices, service_usage,
                   attempt_vars, sanitize_vars, validate_vars, dump_vars, aux_vars>>

NextRun ==
    \/ RunStart
    \/ Download
    \/ \E i \in DOMAIN futures :
        \/ WorkerStart(i)
        \/ WorkerLogUsage(i)
        \/ WorkerEnd(i)
        \/ Collect(i)
    \/ AppendBatch

SpecRun == InitRun /\ [][NextRun]_vars

\* ---------------------------------------------------------------------
\* The debug dumps of extraction attempts that share a dump directory
\* (openrouter.py, _dump_input, _dump_output, _unique_dump_path).  The
\* attempts run in the same second with the same model, so the names
\* they build differ in the kind and the counter only.
\* ---------------------------------------------------------------------

MaxAttempts == 2
Attempts == 1..MaxAttempts

\* lines 294, 317: "{timestamp}-{kind}-{slug}.json" (counter 0), and
\* line 357: "{stem}-{counter}{suffix}"
DumpPath(kind, counter) == [kind |-> kind, counter |-> counter]
NoPath == DumpPath("none", 0)
\* line 288, 314: _dump_input returned None
NoPaths == [input |-> NoPath, output |-> NoPath]

\* path.exists(): the file was created by an open(path, "w")
path_exists(path) == path \in DOMAIN writes

\* open(path, "w") and json.dump: creates the file or truncates it
open_w(path) ==
    writes' = IF path_exists(path)
              THEN [writes EXCEPT ![path] = @ + 1]
              ELSE (path :> 1) @@ writes

InitDump ==
    /\ d_pc = [a \in Attempts |-> "unique_input"]
    /\ d_counter = [a \in Attempts |-> 0]
    /\ dump_paths = [a \in Attempts |-> NoPaths]
    /\ writes = <<>>
    /\ IdleAttempt /\ IdleSanitize /\ IdleValidate /\ IdleRun /\ IdleAux

\* lines 348-360, called at 293 and at 316: one exists() check of the
\* path (counter 0) or of the next candidate; the path that does not
\* exist is returned, and nothing is created by the check
_unique_dump_path(a) ==
    /\ d_pc[a] \in {"unique_input", "unique_output"}
    /\ LET kind == IF d_pc[a] = "unique_input" THEN "input" ELSE "output"
           candidate == DumpPath(kind, d_counter[a])
       IN  IF path_exists(candidate)
           THEN /\ d_counter' = [d_counter EXCEPT ![a] = @ + 1]
                /\ UNCHANGED <<d_pc, dump_paths>>
           ELSE /\ d_counter' = [d_counter EXCEPT ![a] = 0]
                /\ dump_paths' = [dump_paths EXCEPT ![a][kind] = candidate]
                /\ d_pc' = [d_pc EXCEPT ![a] =
                               IF kind = "input" THEN "write_input" ELSE "send"]
    /\ UNCHANGED <<writes, attempt_vars, sanitize_vars, validate_vars, run_vars, aux_vars>>

\* lines 297-314: the input dump is written to the chosen path; an
\* OSError or TypeError ends the dumping of this attempt (None)
_dump_input(a) ==
    /\ d_pc[a] = "write_input"
    /\ \/ /\ open_w(dump_paths[a].input)
          /\ d_pc' = [d_pc EXCEPT ![a] = "unique_output"]
          /\ UNCHANGED dump_paths
       \/ /\ dump_paths' = [dump_paths EXCEPT ![a] = NoPaths]
          /\ d_pc' = [d_pc EXCEPT ![a] = "done"]
          /\ UNCHANGED writes
    /\ UNCHANGED <<d_counter, attempt_vars, sanitize_vars, validate_vars, run_vars, aux_vars>>

\* lines 168-170 and 179-185: the request is answered, or it raises and
\* the attempt ends; after the first response the attempt retries once
\* (blank content or finish reason "length", line 177) or goes on to
\* parse the content
_send_or_raise(a) ==
    /\ d_pc[a] \in {"send", "check"}
    /\ \E answered \in BOOLEAN :
          d_pc' = [d_pc EXCEPT ![a] =
                      IF ~answered THEN "done"
                      ELSE IF d_pc[a] = "send" THEN "first_response"
                      ELSE "retry_response"]
    /\ UNCHANGED <<d_counter, dump_paths, writes,
                   attempt_vars, sanitize_vars, validate_vars, run_vars, aux_vars>>

\* lines 321-346, called at 172 and at 187 with the same dump_paths: the
\* response is written to dump_paths["output"]
_dump_output(a) ==
    /\ d_pc[a] \in {"first_response", "retry_response"}
    /\ open_w(dump_paths[a].output)
    /\ d_pc' = [d_pc EXCEPT ![a] =
                   IF d_pc[a] = "first_response" THEN "check" ELSE "done"]
    /\ UNCHANGED <<d_counter, dump_paths,
                   attempt_vars, sanitize_vars, validate_vars, run_vars, aux_vars>>

NextDump ==
    \E a \in Attempts :
        \/ _unique_dump_path(a)
        \/ _dump_input(a)
        \/ _send_or_raise(a)
        \/ _dump_output(a)

SpecDump == InitDump /\ [][NextDump]_vars

\* ---------------------------------------------------------------------
\* local_command (app.py lines 399-434): one _run_model task per model
\* given on the command line, in a pool of min(len(models), 4) workers.
\* ---------------------------------------------------------------------

MaxModels == 3
LOCAL_MAX_WORKERS == 4

ModelNames == {"openai/gpt-5-mini", "mistralai/mistral-small"}

\* line 399: the models given, or [None]
ModelLists ==
    {<<"None">>} \cup UNION {[1..n -> ModelNames] : n \in 1..MaxModels}

\* what extract_invoice_data does in a task: it returns a record or
\* raises one of the exceptions an attempt ends with
RunOutcomes == {"ok"} \cup ExtractionErrors

\* line 412: except ValueError (pydantic's ValidationError is a ValueError)
caught_by_run_model(exception) == exception \in {"ValueError", "ValidationError"}

\* lines 413-419: the dict a task returns; index is the position of the
\* task's model in models
run_model_result(index, name, out) ==
    [index |-> index,
     model |-> IF name = "None" THEN "google/gemini-2.5-flash-lite" ELSE name,
     kind |-> IF out = "ok" THEN "invoice" ELSE "error"]

NoResult == [index |-> 0, model |-> "", kind |-> "None"]

LocalFuture(st, result) == [st |-> st, result |-> result]

not_local_vars == <<attempt_vars, sanitize_vars, validate_vars, run_vars,
                    dump_vars, execute_vars, name_vars>>

InitLocal ==
    /\ l_pc = "start" /\ l_models \in ModelLists /\ l_futures = <<>>
    /\ ordered = <<>> /\ results = <<>>
    /\ IdleAttempt /\ IdleSanitize /\ IdleValidate /\ IdleRun /\ IdleDump
    /\ IdleExecute /\ IdleName

\* lines 423-428: the tasks are submitted in the order of models
Submit ==
    /\ l_pc = "start"
    /\ l_futures' = [i \in 1..Len(l_models) |-> LocalFuture("queued", NoResult)]
    /\ ordered' = [i \in 1..Len(l_models) |-> NoResult]
    /\ l_pc' = "pool"
    /\ UNCHANGED <<l_models, results, not_local_vars>>

\* line 422
max_workers ==
    IF Len(l_models) <= LOCAL_MAX_WORKERS THEN Len(l_models) ELSE LOCAL_MAX_WORKERS

\* a free worker of the pool takes a queued task
RunModelStart(i) ==
    /\ l_pc = "pool" /\ l_futures[i].st = "queued"
    /\ Cardinality({j \in DOMAIN l_futures : l_futures[j].st = "running"})
          < max_workers
    /\ l_futures' = [l_futures EXCEPT ![i].st = "running"]
    /\ UNCHANGED <<l_pc, l_models, ordered, results, not_local_vars>>

\* lines 401-419: the task ends; a ValueError is returned as an error
\* result, any other exception is the future's exception
RunModelEnd(i) ==
    /\ l_pc = "pool" /\ l_futures[i].st = "running"
    /\ \E out \in RunOutcomes :
          l_futures' = [l_futures EXCEPT ![i] =
              IF out = "ok" \/ caught_by_run_model(out)
              THEN LocalFuture("returned", run_model_result(i, l_models[i], out))
              ELSE LocalFuture("raised", NoResult)]
    /\ UNCHANGED <<l_pc, l_models, ordered, results, not_local_vars>>

\* lines 429-431: as_completed hands over a finished future that was not
\* handed over before; its result is stored at its index, its exception
\* leaves the loop and the command
CollectResult(i) ==
    /\ l_pc = "pool" /\ l_futures[i].st \in {"returned", "raised"}
    /\ IF l_futures[i].st = "returned"
       THEN /\ ordered' = [ordered EXCEPT ![i] = l_futures[i].result]
            /\ l_futures' = [l_futures EXCEPT ![i].st = "collected"]
            /\ UNCHANGED l_pc
       ELSE /\ l_pc' = "crashed"
            /\ UNCHANGED <<ordered, l_futures>>
    /\ UNCHANGED <<l_models, results, not_local_vars>>

\* [item for item in items if item is not None]
RECURSIVE not_none(_)
not_none(items) ==
    IF items = <<>> THEN <<>>
    ELSE IF Head(items) = NoResult THEN not_none(Tail(items))
    ELSE <<Head(items)>> \o not_none(Tail(items))

\* lines 432-434: every future was handed over; the results are printed
PrintResults ==
    /\ l_pc = "pool"
    /\ \A i \in DOMAIN l_futures : l_futures[i].st = "collected"
    /\ results' = not_none(ordered)
    /\ l_pc' = "printed"
    /\ UNCHANGED <<l_models, l_futures, ordered, not_local_vars>>

NextLocal ==
    \/ Submit
    \/ \E i \in DOMAIN l_futures :
        \/ RunModelStart(i)
        \/ RunModelEnd(i)
        \/ CollectResult(i)
    \/ PrintResults

SpecLocal == InitLocal /\ [][NextLocal]_vars

\* ---------------------------------------------------------------------
\* GoogleSheetsService._execute_with_retry (sheets.py lines 38-50)
\* ---------------------------------------------------------------------

max_attempts == 3

\* line 46
RetriedStatuses == {429, 500, 502, 503, 504}

\* request.execute() returns, raises an HttpError with a status (0: the
\* response has no status), or raises another exception
ExecuteOutcomes ==
    {ExecuteOutcome("ok", 200), ExecuteOutcome("TimeoutError", 0)}
    \cup {ExecuteOutcome("HttpError", st) :
            st \in {0, 400, 403, 404} \cup RetriedStatuses}

\* a variant that looks at the status only
reraised_by_status(status, attempt) == status \notin RetriedStatuses

\* line 46: the HttpError is raised again
reraised(status, attempt) ==
    status \notin RetriedStatuses \/ attempt = max_attempts

not_execute_vars == <<attempt_vars, sanitize_vars, validate_vars, run_vars,
                      dump_vars, local_vars, name_vars>>

InitExecute ==
    /\ e_pc = "try" /\ e_attempt = 1 /\ e_seen = <<>>
    /\ e_out = ExecuteOutcome("none", 0)
    /\ IdleAttempt /\ IdleSanitize /\ IdleValidate /\ IdleRun /\ IdleDump
    /\ IdleLocal /\ IdleName

\* lines 41-43: request.execute() is called; its result is returned, an
\* HttpError is handled, any other exception leaves the method
Execute ==
    /\ e_pc = "try"
    /\ \E o \in ExecuteOutcomes :
        /\ e_seen' = Append(e_seen, o)
        /\ IF o.kind = "HttpError"
           THEN e_pc' = "except" /\ UNCHANGED e_out
           ELSE /\ e_pc' = IF o.kind = "ok" THEN "returned" ELSE "raised"
                /\ e_out' = o
    /\ UNCHANGED <<e_attempt, not_execute_vars>>

\* lines 44-50: the HttpError is raised again, or the loop sleeps and
\* goes on; after the last iteration comes the RuntimeError of line 50
HandleHttpError ==
    /\ e_pc = "except"
    /\ LET e == e_seen[Len(e_seen)]
       IN  IF reraised(e.status, e_attempt)
           THEN e_pc' = "raised" /\ e_out' = e /\ UNCHANGED e_attempt
           ELSE IF e_attempt + 1 <= max_attempts
           THEN e_pc' = "try" /\ e_attempt' = e_attempt + 1 /\ UNCHANGED e_out
           ELSE /\ e_pc' = "raised"
                /\ e_out' = ExecuteOutcome("RuntimeError", 0)
                /\ UNCHANGED e_attempt
    /\ UNCHANGED <<e_seen, not_execute_vars>>

NextExecute == Execute \/ HandleHttpError

SpecExecute == InitExecute /\ [][NextExecute]_vars

\* ---------------------------------------------------------------------
\* utils.py: extract_year and sheet_name_for_date, and the sheets that
\* get_processed_file_ids reads (sheets.py line 107). A date is handed
\* to sheet_name_for_date as it is, or as the invoice_date of a validated
\* record, which is what append_invoice and append_invoices_batch get.
\* ---------------------------------------------------------------------

MaxDateLen == 4

S_Invoices == <<"I", "n", "v", "o", "i", "c", "e", "s", " ">>

\* a character that str.isdigit() accepts and the pattern \d does not
SUPERSCRIPT_TWO == "²"

\* str.isdigit(): not empty, and every character is a digit
py_isdigit(s) ==
    s # <<>> /\ \A i \in 1..Len(s) : isdigit(s[i]) \/ s[i] = SUPERSCRIPT_TWO

\* a variant that takes the first four characters whatever they are
extract_year_unchecked(invoice_date) ==
    IF falsy(invoice_date) \/ Len(invoice_date.s) < 4 THEN S_Unknown
    ELSE SubSeq(invoice_date.s, 1, 4)

\* utils.py lines 29-35
extract_year(invoice_date) ==
    IF falsy(invoice_date) \/ Len(invoice_date.s) < 4 THEN S_Unknown
    ELSE LET year == SubSeq(invoice_date.s, 1, 4)
         IN  IF py_isdigit(year) THEN year ELSE S_Unknown

\* utils.py lines 38-41
sheet_name_for_date(invoice_date) ==
    LET year == extract_year(invoice_date)
    IN  IF year # S_Unknown THEN S_Invoices \o year ELSE S_Invoices \o S_Unknown

\* sheets.py line 107: re.match(r"^Invoices \d{4}$", title) or
\* title == "Invoices Unknown"; $ also matches before a last newline
is_invoice_sheet(title) ==
    \/ title = S_Invoices \o S_Unknown
    \/ /\ Len(title) \in {13, 14}
       /\ SubSeq(title, 1, 9) = S_Invoices
       /\ \A i \in 10..13 : isdigit(title[i])
       /\ Len(title) = 14 => title[14] = "\n"

NameChars == {"2", "0", "-", "x", SUPERSCRIPT_TWO}

\* None, every string of up to MaxDateLen characters, and the dates of
\* the validator's inputs
NameDates ==
    {JNull}
    \cup {JStr(s) : s \in UNION {[1..n -> NameChars] : n \in 0..MaxDateLen}}
    \cup {v \in DateValues : v.t = "str"}

not_name_vars == <<attempt_vars, sanitize_vars, validate_vars, run_vars,
                   dump_vars, local_vars, execute_vars>>

InitName ==
    /\ n_pc = "in" /\ n_date \in NameDates
    /\ n_valid = Returned(JNull) /\ n_sheet = <<>>
    /\ IdleAttempt /\ IdleSanitize /\ IdleValidate /\ IdleRun /\ IdleDump
    /\ IdleLocal /\ IdleExecute

\* sheet_name_for_date(invoice_date)
SheetName ==
    /\ n_pc = "in"
    /\ n_sheet' = sheet_name_for_date(n_date)
    /\ n_pc' = "named"
    /\ UNCHANGED <<n_date, n_valid, not_name_vars>>

\* the record of an attempt: invoice_date went through model_validate
ValidateRecord ==
    /\ n_pc = "in"
    /\ n_valid' = model_validate(with_field(Base, K_invoice_date, n_date))
    /\ n_pc' = "validated"
    /\ UNCHANGED <<n_date, n_sheet, not_name_vars>>

\* sheets.py lines 124 and 159: the sheet the record's row is appended to
AppendToSheet ==
    /\ n_pc = "validated" /\ n_valid.kind = "ok"
    /\ n_sheet' = sheet_name_for_date(n_valid.value.d[K_invoice_date])
    /\ n_pc' = "appended"
    /\ UNCHANGED <<n_date, n_valid, not_name_vars>>

NextName == SheetName \/ ValidateRecord \/ AppendToSheet

SpecName == InitName /\ [][NextName]_vars

(***************************************************************************)
(* Properties of the sanitizer, the normalizer and the validator           *)
(***************************************************************************)
\* the mapping handed to model_validate and the record it returned
validated_input == IF v_pc = "direct" THEN v_raw ELSE v_norm.value.d
has_validated == v_pc \in {"direct", "validated"}
record == v_out.value.d

is_placeholder(v) == v.t = "str" /\ lower(strip(v.s)) \in {S_n_a, S_unknown, <<>>}

\* every schema field but f holds the value of the valid answer Base
others_valid(m, f) ==
    \A g \in ALLOWED_SCHEMA_KEYS \ {f} : g \in DOMAIN m /\ m[g] = Base[g]

(* C5 (as stated): for each of company, product, language, total_value and *)
(* currency, validation fails whenever the field is missing or is a        *)
(* placeholder string, succeeds for any other non-empty string when the    *)
(* other fields are valid, and no validated record carries a placeholder   *)
(* in any of the five fields.                                              *)
C5_AsStated ==
    has_validated =>
        \A f \in {K_company, K_product, K_language, K_total_value, K_currency} :
            /\ (f \notin DOMAIN validated_input \/ is_placeholder(validated_input[f]))
                   => v_out.kind # "ok"
            /\ (/\ f \in DOMAIN validated_input
                /\ validated_input[f].t = "str"
                /\ ~ is_placeholder(validated_input[f])
                /\ others_valid(validated_input, f))
                   => v_out.kind = "ok"
            /\ v_out.kind = "ok" => ~ is_placeholder(record[f])

(* C5 (amended): for company, product, total_value and currency,           *)
(* validation fails (no record is produced) whenever the field is missing  *)
(* or a placeholder string; for language it fails whenever the field is    *)
(* present and a placeholder string, while a mapping without language      *)
(* takes the default "unknown" unvalidated; validation succeeds for any    *)
(* other non-empty string when the other fields are valid. No validated    *)
(* record carries a placeholder in company, product, total_value or        *)
(* currency, and it carries one in language only when the mapping had no   *)
(* language key.                                                           *)
C5_PlaceholdersRejected ==
    has_validated =>
        \A f \in {K_company, K_product, K_language, K_total_value, K_currency} :
            /\ (f \notin DOMAIN validated_input /\ f # K_language)
                   => v_out.kind # "ok"
            /\ (f \in DOMAIN validated_input /\ is_placeholder(validated_input[f]))
                   => v_out.kind # "ok"
            /\ (/\ f \in DOMAIN validated_input
                /\ validated_input[f].t = "str"
                /\ ~ is_placeholder(validated_input[f])
                /\ others_valid(validated_input, f))
                   => v_out.kind = "ok" /\ record[f] = validated_input[f]
            /\ (v_out.kind = "ok" /\ is_placeholder(record[f]))
                   => /\ f = K_language
                      /\ K_language \notin DOMAIN validated_input
                      /\ record[f] = JStr(S_unknown)

\* a padded, upper-case placeholder in company has been rejected, and a
\* mapping without language has been validated to language "unknown"
C5_Witness ==
    /\ v_pc = "direct"
    /\ \/ /\ K_company \in DOMAIN v_raw
          /\ v_raw[K_company] = JStr(<<" ", "N", "/", "A", " ">>)
          /\ v_out.kind = "ValidationError"
          /\ v_out.errors = {K_company}
       \/ /\ K_language \notin DOMAIN v_raw
          /\ v_out.kind = "ok"
          /\ record[K_language] = JStr(S_unknown)

\* exactly \d{4}-\d{2}-\d{2}
is_canonical_date(v) ==
    v.t = "str" /\ Len(v.s) = 10 /\ DATE_YYYY_MM_DD_RE(v.s)

\* one of the four accepted input shapes, and nothing after it
is_accepted_shape(v) ==
    /\ v.t = "str"
    /\ \/ Len(v.s) = 10 /\ DATE_DD_MM_YYYY_RE(v.s)
       \/ Len(v.s) = 10 /\ DATE_YYYY_MM_DD_RE(v.s)
       \/ strptime(v.s, MonthNames).ok
       \/ strptime(v.s, MonthAbbrs).ok

(* C6: every record produced by validation has invoice_date in the form of *)
(* four digits, "-", two digits, "-", two digits, and an input             *)
(* invoice_date in any shape other than DD.MM.YYYY, YYYY-MM-DD or the two  *)
(* month-name formats (the empty string and an accepted shape followed by  *)
(* more characters included) is a validation failure.                      *)
C6_CanonicalDate ==
    has_validated =>
        /\ v_out.kind = "ok" => is_canonical_date(record[K_invoice_date])
        /\ (K_invoice_date \in DOMAIN validated_input
              /\ ~ is_accepted_shape(validated_input[K_invoice_date]))
               => v_out.kind # "ok"

(* C7 (as stated): every record produced by validation has an              *)
(* invoice_number that is not a placeholder.                               *)
C7_AsStated ==
    (has_validated /\ v_out.kind = "ok") => ~ is_placeholder(record[K_invoice_number])

(* C7 (amended): invoice_number is required and must be a string, but it   *)
(* is not placeholder-checked: a record is produced only from a mapping    *)
(* whose invoice_number is a string, the record carries that string        *)
(* unchanged, and any string, "N/A", "unknown" and "" included, is         *)
(* accepted when the other fields are valid.                               *)
C7_NumberRequiredNotChecked ==
    has_validated =>
        /\ v_out.kind = "ok" =>
              /\ K_invoice_number \in DOMAIN validated_input
              /\ validated_input[K_invoice_number].t = "str"
              /\ record[K_invoice_number] = validated_input[K_invoice_number]
        /\ (/\ K_invoice_number \in DOMAIN validated_input
            /\ validated_input[K_invoice_number].t = "str"
            /\ others_valid(validated_input, K_invoice_number))
               => v_out.kind = "ok"
        /\ (K_invoice_number \notin DOMAIN validated_input
              \/ validated_input[K_invoice_number].t # "str")
               => v_out.kind # "ok"

\* a record whose invoice_number is the placeholder "N/A" has been produced
C7_Witness ==
    /\ v_pc = "validated"
    /\ K_invoice_number \in DOMAIN v_raw
    /\ v_raw[K_invoice_number] = JStr(S_N_A)
    /\ v_out.kind = "ok"
    /\ record[K_invoice_number] = JStr(S_N_A)

(* C10: for every raw response that validates, every top-level raw key     *)
(* outside the eight canonical fields is in the record's extra_fields with *)
(* exactly its raw value, extra_fields holds no canonical key, and the     *)
(* record has no such key at top level; this for every key name, a raw key *)
(* named extra_fields included.                                            *)
C10_ExtraFieldsLossless ==
    (v_pc = "validated" /\ v_out.kind = "ok") =>
        LET extra == record[K_extra_fields].d
        IN  /\ \A k \in DOMAIN v_raw \ ALLOWED_SCHEMA_KEYS :
                  /\ k \in DOMAIN extra
                  /\ extra[k] = v_raw[k]
                  /\ k \in ProvenanceFields => record[k] = JNull
            /\ DOMAIN extra \cap ALLOWED_SCHEMA_KEYS = {}

(* C9: strip_code_fences is idempotent: for every string x,                *)
(* strip_code_fences(strip_code_fences(x)) = strip_code_fences(x),         *)
(* including repeated leading fences, repeated json tags and no braces.    *)
C9_Idempotent == s_pc = "twice" => s_twice = s_once

(***************************************************************************)
(* Properties of an extraction attempt (Spec)                              *)
(***************************************************************************)
ended == pc = "DONE"
entered(stage) == \E i \in 1..Len(stages) : stages[i] = stage
sends_entered == Cardinality({i \in 1..Len(stages) : stages[i] \in {"SEND", "RETRY_ONCE"}})
last_stage_before_done == stages[Len(stages) - 1]

TypedFailures ==
    {Raised("ValueError", S_NO_CHOICES), Raised("ValueError", S_PARSE_ERROR)}

(* C1: every call of extract_invoice_data that does not return a validated *)
(* record ends in one of the four typed failures: ValueError "ERROR: ...", *)
(* ValueError "NO_CHOICES", ValueError "PARSE_ERROR" or pydantic's         *)
(* ValidationError, whatever the response (null content, JSON that is no   *)
(* object, fields that are no strings).                                    *)
C1_TypedFailures ==
    ended =>
        \/ outcome.kind = "ok"
        \/ outcome.kind = "ValueError" /\ startswith(outcome.msg, S_ERROR)
        \/ outcome \in TypedFailures
        \/ outcome.kind = "ValidationError"

decodes(c) == c.t = "str" /\ json_loads(strip_code_fences(c.s)).ok

(* C3: when the content handed to PARSE is not valid JSON after            *)
(* strip_code_fences, the attempt ends with ValueError "PARSE_ERROR" right *)
(* after PARSE, with no SEND after it.                                     *)
C3_DecodeFailureTerminal ==
    (entered("PARSE") /\ ~ decodes(content)) =>
        /\ pc \in {"PARSE", "DONE"}
        /\ sends_entered = Len(sent)
        /\ ended =>
            /\ last_stage_before_done = "PARSE"
            /\ outcome = Raised("ValueError", S_PARSE_ERROR)

\* the parsed response has company "" and no alias for it
company_empty ==
    /\ extracted_data.t = "dict"
    /\ K_company \in DOMAIN extracted_data.d
    /\ extracted_data.d[K_company] = JStr(<<>>)
    /\ K_vendor_name \notin DOMAIN extracted_data.d
    /\ K_vendor_details \notin DOMAIN extracted_data.d

(* C4: a validation failure ends the attempt with no SEND after it, and a  *)
(* parsed response whose company is "" (with no vendor_name or             *)
(* vendor_details) ends the attempt with a ValidationError naming company. *)
C4_ValidationTerminal ==
    /\ (ended /\ outcome.kind = "ValidationError") =>
            /\ last_stage_before_done = "VALIDATE"
            /\ sends_entered = Len(sent)
    /\ (ended /\ entered("NORMALIZE") /\ company_empty) =>
            /\ outcome.kind = "ValidationError"
            /\ K_company \in outcome.errors

\* DD.MM.YYYY and nothing else
is_german_date(v) == v.t = "str" /\ Len(v.s) = 10 /\ DATE_DD_MM_YYYY_RE(v.s)

\* the three digit groups of DD.MM.YYYY as YYYY-MM-DD
reordered(s) ==
    <<s[7], s[8], s[9], s[10], "-", s[4], s[5], "-", s[1], s[2]>>

(* C8: for every invoice_date of the form DD.MM.YYYY the validator yields  *)
(* YYYY-MM-DD with the same digit groups, whether or not they name a day   *)
(* of the calendar, and that is the invoice_date of the record returned;   *)
(* the attempt whose response is the valid answer with invoice_date        *)
(* "06.01.2026" returns a record with invoice_date "2026-01-06".           *)
C8_GermanDateReordered ==
    (ended /\ entered("VALIDATE") /\ K_invoice_date \in DOMAIN normalized_data.d
           /\ is_german_date(normalized_data.d[K_invoice_date])) =>
        LET value == normalized_data.d[K_invoice_date]
        IN  /\ _normalize_invoice_date(value) = Returned(JStr(reordered(value.s)))
            /\ outcome.kind = "ok" =>
                    outcome.value.d[K_invoice_date] = JStr(reordered(value.s))
            /\ extracted_data.d = with_field(Base, K_invoice_date, JStr(S_german)) =>
                    /\ outcome.kind = "ok"
                    /\ outcome.value.d[K_invoice_date] = JStr(S_german_iso)

\* a record returned for the response with invoice_date "99.00.0000"
C8_Witness ==
    /\ ended
    /\ outcome.kind = "ok"
    /\ extracted_data.d[K_invoice_date] =
            JStr(<<"9", "9", ".", "0", "0", ".", "0", "0", "0", "0">>)
    /\ outcome.value.d[K_invoice_date] =
            JStr(<<"0", "0", "0", "0", "-", "0", "0", "-", "9", "9">>)

(* C11: the record returned by validation, and by extract_invoice_data,    *)
(* has file_id, file_name, file_url and extraction_date unset whatever the *)
(* response, a response with top-level keys of these names included.       *)
C11_ProvenanceUnset ==
    (ended /\ outcome.kind = "ok") =>
        \A f \in ProvenanceFields : outcome.value.d[f] = JNull

\* a response with one of the statuses the claims name as retried
is_forcelist_response(o) ==
    o.kind = "response" /\ o.status \in {429, 500, 502, 503, 504}

(* C12: one SEND makes at most 3 HTTP attempts; an attempt is retried only *)
(* after a connection failure, a read timeout or status 429, 500, 502, 503 *)
(* or 504; after three 503 responses in a row the SEND is over (no fourth  *)
(* attempt) and the attempt has failed with ValueError "ERROR: ..."; a     *)
(* SEND whose last HTTP attempt got status 200 has its response.           *)
C12_ThreeAttempts ==
    /\ \A i \in 1..Len(http) : http[i].attempts <= 3
    /\ pc \in {"SEND", "RETRY_ONCE"} => Len(retries) + 1 <= 3
    /\ \A i \in 1..Len(retries) :
            retries[i].kind \in {"connect", "read"} \/ is_forcelist_response(retries[i])
    /\ retries # <<HttpResponse(503, FALSE), HttpResponse(503, FALSE),
                   HttpResponse(503, FALSE)>>
    /\ \A i \in 1..Len(http) :
            http[i].last = HttpResponse(200, FALSE) =>
                i <= Len(received) /\ (ended /\ i = Len(http) =>
                    ~ startswith(outcome.msg, S_ERROR))

(* C15: extract_invoice_data raises nothing when the attempt fails: for a   *)
(* response with no choices, for content that is no JSON and for a SEND     *)
(* that raised, it returns a result whose invoice_number is "NO_CHOICES",   *)
(* "PARSE_ERROR" and "ERROR: ..." respectively.                             *)
C15_ErrorsReturned ==
    ended =>
        /\ (received # <<>> /\ received[Len(received)].choices = <<>>) =>
                /\ outcome.kind = "ok"
                /\ outcome.value.d[K_invoice_number] = JStr(S_NO_CHOICES)
        /\ (entered("PARSE") /\ content.t = "str" /\ ~ decodes(content)) =>
                /\ outcome.kind = "ok"
                /\ outcome.value.d[K_invoice_number] = JStr(S_PARSE_ERROR)
        /\ (http # <<>> /\ http[Len(http)].last # HttpResponse(200, FALSE)) =>
                /\ outcome.kind = "ok"
                /\ startswith(outcome.value.d[K_invoice_number].s, S_ERROR)

is_blank(c) == c.t = "str" /\ strip(c.s) = <<>>

(* C18: in a call whose first response has a choice, the number of SENDs   *)
(* is 1 when the first content is not blank and the finish reason is not   *)
(* "length", 2 when the first content is blank or the finish reason is     *)
(* "length", and never more than 2; the content of a second response goes  *)
(* to PARSE as it is.                                                      *)
C18_SendCount ==
    (ended /\ received # <<>> /\ received[1].choices # <<>>) =>
        LET first == received[1].choices[1].content
            reason == _extract_finish_reason(received[1])
        IN  /\ Len(sent) <= 2
            /\ (~ is_blank(first) /\ reason # "length") => Len(sent) = 1
            /\ (is_blank(first) \/ reason = "length") => Len(sent) = 2
            /\ (Len(received) = 2 /\ received[2].choices # <<>>) =>
                    /\ entered("PARSE")
                    /\ content = received[2].choices[1].content

(* C19: the max_tokens of the additional SEND, whether blank content or    *)
(* the finish reason "length" caused it, is max(2 * the max_tokens of the  *)
(* first SEND, 2000): more than 1000 and at least 2000.                    *)
C19_RetryBudget ==
    Len(sent) = 2 =>
        /\ sent[2] = Max(2 * sent[1], 2000)
        /\ sent[2] > 1000
        /\ sent[2] >= 2000

\* a response with an error status other than 429, 500, 502, 503 and 504
is_other_error(o) ==
    o.kind = "response" /\ o.status # 200 /\ ~ is_forcelist_response(o)

(* C20: an HTTP attempt that gets an error status other than 429, 500,     *)
(* 502, 503 and 504 is never retried: it is the first and last attempt of  *)
(* its SEND, and the call ends right there with ValueError "ERROR: ..."    *)
(* carrying the status, with no retry SEND and no later stage.             *)
C20_OtherStatusNotRetried ==
    /\ \A i \in 1..Len(retries) : ~ is_other_error(retries[i])
    /\ \A i \in 1..Len(http) :
            is_other_error(http[i].last) =>
                /\ i = Len(http)
                /\ ended
                /\ last_stage_before_done \in {"SEND", "RETRY_ONCE"}
                /\ outcome = Raised("ValueError",
                                    S_ERROR \o digits_of_nat(http[i].last.status))

(***************************************************************************)
(* Properties of InvoiceProcessor.run (SpecRun)                            *)
(***************************************************************************)
with_invoice == {i \in DOMAIN futures : futures[i].st = "invoice"}
in_batch == {extracted_invoices[k] : k \in 1..Len(extracted_invoices)}

(* C13: the failure of one document never ends the run: whatever its       *)
(* download or its extraction raises, every new document is downloaded,    *)
(* every downloaded one is extracted, the ones with a record make up the   *)
(* batch that is appended, and no failed document is counted.              *)
C13_FailuresIsolated ==
    /\ r_pc = "crashed" => new_files = <<>>
    /\ r_pc \in {"pool", "done"} =>
            \A i \in positions : downloads[i] # "pending"
    /\ r_pc = "done" =>
            /\ \A i \in positions : downloads[i] = "bytes" => finished(futures[i])
            /\ in_batch = with_invoice
            /\ processed_count <= Cardinality(with_invoice)

\* a run in which one task raised an exception that _extract_invoice does
\* not catch, one download failed, and another file was appended and counted
C13_Witness ==
    /\ r_pc = "done"
    /\ \E i \in positions : downloads[i] = "bytes" /\ futures[i].st = "raised"
    /\ \E j \in positions :
            /\ futures[j].st = "invoice"
            /\ \E k \in 1..Len(sheet_rows) : sheet_rows[k].file_id = new_files[j]
    /\ processed_count = 1

(* C14: over any sequence of runs, a file whose ID the spreadsheet holds   *)
(* is not downloaded, extracted or appended again, and no file ID is in    *)
(* the spreadsheet more than once, also when the listing of a run names a  *)
(* file ID more than once.                                                 *)
C14_NoDuplicateRows ==
    /\ \A i \in positions : new_files[i] \notin processed_ids
    /\ \A a, b \in 1..Len(sheet_rows) :
            a # b => sheet_rows[a].file_id # sheet_rows[b].file_id

(* C16: the attempts the pool runs at the same time share no mutable       *)
(* state: what a running attempt has written to last_usage is not written  *)
(* by another attempt while it runs.                                       *)
C16_NoSharedState ==
    \A i \in DOMAIN futures : futures[i].st = "logged" => service_usage = i

\* ---------------------------------------------------------------------
\* Properties of the debug dumps (SpecDump)
\* ---------------------------------------------------------------------

\* C17: attempts that share a dump directory, timestamp and model slug
\* are given pairwise distinct input and output paths by _dump_input,
\* and no dump file is opened for writing a second time, by the attempt
\* that wrote it or by another one.
C17_NeverOverwrites ==
    /\ \A a, b \in DOMAIN dump_paths : \A kind \in {"input", "output"} :
          a # b /\ dump_paths[a][kind] # NoPath
              => dump_paths[a][kind] # dump_paths[b][kind]
    /\ \A path \in DOMAIN writes : writes[path] <= 1

\* ---------------------------------------------------------------------
\* Properties of strip_code_fences on blank texts (SpecSanitize)
\* ---------------------------------------------------------------------

\* C21 as stated: an empty or whitespace-only text is returned unchanged.
C21_AsStated ==
    s_pc # "in" /\ strip(s_text) = <<>> => s_once = s_text

\* C21: an empty or whitespace-only text is returned as the empty text
\* (the empty text unchanged, a whitespace-only text stripped to '').
C21_BlankToEmpty ==
    s_pc # "in" /\ strip(s_text) = <<>> => s_once = <<>>

C21_Witness ==
    s_pc = "once" /\ s_text # <<>> /\ strip(s_text) = <<>> /\ s_once = <<>>

\* ---------------------------------------------------------------------
\* Properties of _normalize_extracted_data (SpecValidate)
\* ---------------------------------------------------------------------

normalized_ok == v_pc \in {"normalized", "validated"} /\ v_norm.kind = "ok"

\* the raw response carries a value: the key is there and is neither
\* null nor the empty string
populated(m, f) ==
    f \in DOMAIN m /\ m[f].t # "null" /\ m[f] # JStr(<<>>)

AliasedFields == {K_company, K_product, K_total_value, K_taxes_paid, K_language}

\* the value as the normalizer hands it on: total_value and taxes_paid
\* as strings
handed_on(f, v) ==
    IF f \in {K_total_value, K_taxes_paid} THEN JStr(py_str(v)) ELSE v

\* C22: a field of company, product, total_value, taxes_paid, language
\* that the raw response carries a value for (the number 0 included)
\* keeps that value, whatever the alias keys hold; and a non-blank
\* vendor_name is taken for an absent company before vendor_details.name.
C22_PopulatedFieldsKept ==
    normalized_ok =>
        /\ \A f \in AliasedFields :
              populated(v_raw, f) => v_norm.value.d[f] = handed_on(f, v_raw[f])
        /\ (/\ ~ populated(v_raw, K_company)
            /\ K_vendor_name \in DOMAIN v_raw
            /\ v_raw[K_vendor_name].t = "str"
            /\ strip(v_raw[K_vendor_name].s) # <<>>)
              => v_norm.value.d[K_company] = JStr(strip(v_raw[K_vendor_name].s))

\* C23: the returned mapping has no top-level key outside the eight
\* canonical fields and extra_fields, and extra_fields holds every other
\* key of the raw response with its value.
C23_NoExtraTopLevelKeys ==
    normalized_ok =>
        /\ DOMAIN v_norm.value.d \subseteq ALLOWED_SCHEMA_KEYS \cup {EXTRA_FIELDS_KEY}
        /\ \A k \in DOMAIN v_raw \ (ALLOWED_SCHEMA_KEYS \cup {EXTRA_FIELDS_KEY}) :
              /\ k \in DOMAIN v_norm.value.d[EXTRA_FIELDS_KEY].d
              /\ v_norm.value.d[EXTRA_FIELDS_KEY].d[k] = v_raw[k]

\* ---------------------------------------------------------------------
\* Properties of the request payload (Spec)
\* ---------------------------------------------------------------------

begins_with(m, p) == Len(m) >= Len(p) /\ \A i \in 1..Len(p) : m[i] = p[i]
is_gpt5(m) == begins_with(m, <<"o", "p", "e", "n", "a", "i", "/", "g", "p", "t", "-", "5">>)
is_mistral(m) == begins_with(m, <<"m", "i", "s", "t", "r", "a", "l", "a", "i", "/">>)

\* C24: the payload of the first SEND has max_tokens 2000 and the
\* reasoning effort 'minimal' exactly when the model id starts with
\* 'openai/gpt-5', and 1000 and no reasoning key otherwise; it has no
\* response_format exactly when the model id starts with 'mistralai/'.
C24_PayloadByFamily ==
    pc = "SEND" =>
        /\ payload.model = model
        /\ payload.max_tokens = (IF is_gpt5(model) THEN 2000 ELSE 1000)
        /\ payload.reasoning = (IF is_gpt5(model) THEN "minimal" ELSE "none")
        /\ payload.response_format = ~ is_mistral(model)

C24_Witness ==
    /\ pc = "SEND" /\ model = M_gpt5
    /\ payload.max_tokens = 2000 /\ payload.reasoning = "minimal"
    /\ payload.response_format

\* ---------------------------------------------------------------------
\* Properties of the run's count of processed invoices (SpecRun)
\* ---------------------------------------------------------------------

\* the rows the run under way has written: no earlier row has the ID of a
\* new file (line 121)
rows_of_this_run ==
    {k \in DOMAIN sheet_rows : sheet_rows[k].file_id \notin processed_ids}

\* C28: when the run is over, the count it adds to state.processed_count
\* is the number of rows it has written to the spreadsheet, also when the
\* batch failed at a later sheet after an earlier sheet was written.
C28_CountIsRowsWritten ==
    r_pc = "done" => processed_count = Cardinality(rows_of_this_run)

\* ---------------------------------------------------------------------
\* Properties of local_command (SpecLocal)
\* ---------------------------------------------------------------------

\* C25: when the command is over it has printed one result per model
\* given, in the order the models were given, whatever the order in
\* which the tasks of the pool ended.
C25_ResultsInInputOrder ==
    l_pc \in {"printed", "crashed"} =>
        /\ l_pc = "printed"
        /\ Len(results) = Len(l_models)
        /\ \A i \in DOMAIN results :
              results[i].index = i /\ results[i].kind \in {"invoice", "error"}

\* ---------------------------------------------------------------------
\* Properties of the attempt after its second SEND (Spec)
\* ---------------------------------------------------------------------

\* what lines 187-191 make of a response
outcome_of(result) ==
    LET c == _extract_content(result)
    IN  IF c.kind # "ok" THEN c
        ELSE LET parsed == _parse_response_json(c.value)
             IN  IF parsed.kind # "ok" THEN parsed
                 ELSE LET normalized == _normalize_extracted_data(parsed.value)
                      IN  IF normalized.kind # "ok" THEN normalized
                          ELSE _validate_invoice(normalized.value)

\* C26: once a second response has arrived, last_usage and last_headers
\* are those of the second response, the content handed to PARSE is the
\* second response's content, and the outcome of the attempt is what the
\* second response alone gives, whatever the first response held.
C26_SecondResponseDecides ==
    Len(received) = 2 =>
        /\ last_usage = received[2].usage
        /\ last_headers = received[2].headers
        /\ entered("PARSE") => content = received[2].choices[1].content
        /\ pc = "DONE" => outcome = outcome_of(received[2])

C26_Witness ==
    /\ pc = "DONE" /\ Len(received) = 2
    /\ received[1].choices[1].finish_reason = "length"
    /\ received[1].choices[1].content = JStr(BaseText)
    /\ received[2].choices # <<>>
    /\ is_blank(received[2].choices[1].content)
    /\ outcome.kind = "ValueError"

\* ---------------------------------------------------------------------
\* Properties of the language of a record (SpecValidate)
\* ---------------------------------------------------------------------

language_missing(m) ==
    K_language \notin DOMAIN m \/ m[K_language] \in {JNull, JStr(<<>>)}

starts_german(m) ==
    /\ K_invoice_date \in DOMAIN m
    /\ m[K_invoice_date].t = "str"
    /\ DATE_DD_MM_YYYY_RE(m[K_invoice_date].s)

\* C27: a record validated after normalisation never has a placeholder
\* as its language: the normalizer sets an absent or empty language to
\* 'de' when invoice_date starts with DD.MM.YYYY and to 'en' otherwise;
\* a mapping without language that is validated directly gets 'unknown'.
C27_LanguageNeverPlaceholder ==
    /\ v_pc = "validated" /\ v_out.kind = "ok"
          => ~ is_placeholder(record[K_language])
    /\ normalized_ok /\ language_missing(v_raw)
          => /\ K_language \in DOMAIN v_norm.value.d
             /\ v_norm.value.d[K_language] =
                    JStr(IF starts_german(v_raw) THEN S_de ELSE S_en)
    /\ v_pc = "direct" /\ v_out.kind = "ok" /\ K_language \notin DOMAIN v_raw
          => record[K_language] = JStr(S_unknown)

C27_Witness ==
    /\ v_pc = "validated" /\ v_out.kind = "ok"
    /\ K_language \notin DOMAIN v_raw
    /\ starts_german(v_raw)
    /\ record[K_language] = JStr(S_de)

\* ---------------------------------------------------------------------
\* Properties of _execute_with_retry (SpecExecute)
\* ---------------------------------------------------------------------

is_retried_error(o) == o.kind = "HttpError" /\ o.status \in {429, 500, 502, 503, 504}

\* C30: request.execute is called at most 3 times; every call but the
\* last one raised an HttpError with a status in {429, 500, 502, 503,
\* 504}; the first result is returned; any other HttpError, and the
\* HttpError of the third call, is raised again; the RuntimeError of the
\* last line is never raised.
C30_AtMostThreeCalls ==
    /\ Len(e_seen) <= 3
    /\ \A i \in 1..(Len(e_seen) - 1) : is_retried_error(e_seen[i])
    /\ e_out.kind # "RuntimeError"
    /\ e_pc = "returned" => e_out = e_seen[Len(e_seen)] /\ e_out.kind = "ok"
    /\ e_pc = "raised" =>
          /\ e_out = e_seen[Len(e_seen)]
          /\ is_retried_error(e_out) => Len(e_seen) = 3
    /\ e_pc = "try" /\ e_seen # <<>> => is_retried_error(e_seen[Len(e_seen)])

C30_Witness ==
    /\ e_pc = "raised" /\ Len(e_seen) = 3
    /\ e_out = ExecuteOutcome("HttpError", 503)

\* ---------------------------------------------------------------------
\* Properties of sheet_name_for_date (SpecName)
\* ---------------------------------------------------------------------

\* the date sheet_name_for_date was called with
named_date ==
    IF n_pc = "named" THEN n_date ELSE n_valid.value.d[K_invoice_date]

has_year(v) ==
    /\ v.t = "str" /\ Len(v.s) >= 4
    /\ \A i \in 1..4 : v.s[i] \in {"0", "1", "2", "3", "4", "5", "6", "7", "8", "9",
                                   SUPERSCRIPT_TWO}

\* C29: for every date, None, empty and short ones included, the sheet
\* name is 'Invoices ' and the first four characters when they are all
\* digits, and 'Invoices Unknown' otherwise; and the sheet a record's
\* row is appended to is one that get_processed_file_ids reads.
C29_SheetNameScanned ==
    /\ n_pc \in {"named", "appended"} =>
          n_sheet = IF has_year(named_date)
                    THEN S_Invoices \o SubSeq(named_date.s, 1, 4)
                    ELSE <<"I", "n", "v", "o", "i", "c", "e", "s", " ",
                           "U", "n", "k", "n", "o", "w", "n">>
    /\ n_pc = "appended" => is_invoice_sheet(n_sheet)

C29_Witness ==
    /\ n_pc = "appended"
    /\ n_date = JStr(S_german)
    /\ n_sheet = <<"I", "n", "v", "o", "i", "c", "e", "s", " ", "2", "0", "2", "6">>

====
